---------------------------- MODULE Spec2Model ----------------------------
(***************************************************************************)
(* A model of the dynamic API gateway: the definition store, the handler's *)
(* in-memory route table and the request dispatcher.                       *)
(*                                                                         *)
(* Part I models the definition CRUD handlers (CreateAPI, UpdateAPI,       *)
(* DeleteAPI, GetAPIDetail) on top of the store's methods, one step per    *)
(* database call or locked cache section, and the dispatcher's lookup.     *)
(*                                                                         *)
(* Abstractions of Part I: a definition document carries id, name, method, *)
(* endpoint, database, collection and `body`, which stands for the rest of *)
(* the payload (uniqueKey, parameters, responseSchema, conditionalFlow);   *)
(* createdAt/updatedAt are not represented.  The definition collection is  *)
(* available: driver faults other than "no documents" and "duplicate key"  *)
(* are not part of the model.  Methods are HTTP verbs and endpoints are    *)
(* path templates, as the data model of the specification says.            *)
(***************************************************************************)
EXTENDS Integers, Sequences, FiniteSets, TLC

\* ---------------------------------------------------------------- bounds
\* ObjectIDs handed out by CreateAPIDefinition (creates per behaviour).
MaxCreates == 2
\* Requests started per behaviour.
MaxRequests == 3

\* ------------------------------------------------------------ value sets
Workers == {"w1", "w2"}
Names == {"A", "B"}
Methods == {"GET", "POST"}
Bodies == {"v1", "v2"}

\* A path segment: a literal, or a `:name` parameter of a template.
Lit(s) == [param |-> FALSE, s |-> s]
Par(s) == [param |-> TRUE, s |-> s]
EpX == <<Lit("x")>>
EpUserId == <<Lit("u"), Par("id")>>
Endpoints == {EpX, EpUserId}
\* The (method, endpoint) pairs that payloads name.
Routes == {<<"GET", EpX>>, <<"POST", EpX>>, <<"GET", EpUserId>>}
\* Paths of incoming dynamic requests.
ReqPaths == {<<Lit("x")>>, <<Lit("u"), Lit("7")>>, <<Lit("u"), Lit(":id")>>}

\* -------------------------------------------------------------- variables
VARIABLES
    store,          \* the api-definitions collection: a set of documents
    uniqueIndexes,  \* whether the deployment created the unique indexes
    dynamicRoutes,  \* Handler.dynamicRoutes: key string -> definition
    nextId,         \* next ObjectID of primitive.NewObjectID
    req,            \* per worker: the request it is serving
    overlap,        \* whether requests may overlap (set once, in Init)
    nStarted,       \* requests started so far
    heap,           \* the Go maps alive in the process: address -> map object
    db,             \* the dynamic data collection: documents in insertion order
    dyn,            \* per worker: the dynamic request in DynamicAPIHandler
    calls,          \* one interpreter invocation: its stack of Go call frames
    pure            \* one application of a function of the core package

crudVars == <<store, uniqueIndexes, dynamicRoutes, nextId, req, overlap, nStarted>>
dynVars == <<heap, db, dyn>>
auxVars == <<calls, pure>>
vars == <<crudVars, dynVars, auxVars>>

\* ------------------------------------------------------------- documents
NoDoc == [id |-> 0, name |-> "", method |-> "", endpoint |-> <<>>,
          database |-> "", collection |-> "", body |-> ""]

NoPayload == [name |-> "", method |-> "", endpoint |-> <<>>,
              database |-> "", collection |-> "", body |-> ""]

ValidPayloads ==
    { [name |-> n, method |-> r[1], endpoint |-> r[2], database |-> "app",
       collection |-> "users", body |-> b] :
         n \in Names, r \in Routes, b \in Bodies }

\* One payload per required field left empty.
InvalidPayloads ==
    LET base == [name |-> "A", method |-> "GET", endpoint |-> EpX,
                 database |-> "app", collection |-> "users", body |-> "v1"]
    IN { [base EXCEPT !.name = ""], [base EXCEPT !.method = ""],
         [base EXCEPT !.endpoint = <<>>], [base EXCEPT !.database = ""],
         [base EXCEPT !.collection = ""] }

Payloads == ValidPayloads \cup InvalidPayloads

\* ------------------------------------------------------------ route keys
RECURSIVE PathString(_)
PathString(segs) ==
    IF segs = <<>> THEN ""
    ELSE "/" \o (IF Head(segs).param THEN ":" ELSE "") \o Head(segs).s
             \o PathString(Tail(segs))

\* key := api.Method + ":" + api.Endpoint
RouteKey(method, endpoint) == method \o ":" \o PathString(endpoint)

DocKey(d) == RouteKey(d.method, d.endpoint)

\* ------------------------------------------------------- store (queries)
\* CountDocuments(bson.M{"name": name})
CountName(st, name) == Cardinality({d \in st : d.name = name})

\* CountDocuments(bson.M{"method": m, "endpoint": e})
CountEndpoint(st, m, e) == Cardinality({d \in st : d.method = m /\ d.endpoint = e})

\* (mutant) the $ne on _id turned into an equality: only the document itself counts
ConflictCount_SameDoc(st, m, e, id) ==
    Cardinality({d \in st : d.method = m /\ d.endpoint = e /\ d.id = id})

\* CountDocuments(method, endpoint, _id $ne id)
ConflictCount(st, m, e, id) ==
    Cardinality({d \in st : d.method = m /\ d.endpoint = e /\ d.id # id})

\* The documents a FindOne / UpdateOne / DeleteOne by name may select.
ByName(st, name) == {d \in st : d.name = name}

CreateMissingRequired(api) ==
    \/ api.name = ""
    \/ api.endpoint = <<>>
    \/ api.method = ""
    \/ api.database = ""
    \/ api.collection = ""

UpdateMissingRequired(p) ==
    \/ p.endpoint = <<>>
    \/ p.method = ""
    \/ p.database = ""
    \/ p.collection = ""

\* The unique indexes name_1 and method_1_endpoint_1, when they exist, refuse
\* a write that would leave two documents with one name or one (method, endpoint).
InsertDuplicateKey(st, doc) ==
    IF CountName(st, doc.name) > 0 THEN "ErrDuplicateName"
    ELSE IF CountEndpoint(st, doc.method, doc.endpoint) > 0 THEN "ErrDuplicateEndpoint"
    ELSE "nil"

\* $set of the allowed fields: the name and the _id stay.
ApplyUpdate(doc, p) ==
    [doc EXCEPT !.endpoint = p.endpoint, !.method = p.method,
                !.database = p.database, !.collection = p.collection,
                !.body = p.body]

\* ------------------------------------------------- handlers: status codes
\* (mutant) ErrDuplicateEndpoint left out of the 409 test
CreateErrorStatus_NoEndpoint(err) ==
    IF err = "ErrMissingRequiredFields" THEN 400
    ELSE IF err \in {"ErrDuplicateName", "ErrDuplicateKey"} THEN 409
    ELSE 500

CreateErrorStatus(err) ==
    IF err = "ErrMissingRequiredFields" THEN 400
    ELSE IF err \in {"ErrDuplicateName", "ErrDuplicateEndpoint", "ErrDuplicateKey"} THEN 409
    ELSE 500

UpdateErrorStatus(err) ==
    IF err = "ErrMissingRequiredFields" THEN 400
    ELSE IF err = "ErrNotFound" THEN 404
    ELSE IF err = "ErrDuplicateEndpoint" THEN 409
    ELSE 500

\* GetAPIDefinitionByName returns (nil, ErrNotFound) when nothing matches; the
\* handlers test err != nil first and answer 500, so their `api == nil` branch
\* (404) is taken only for a (nil, nil) result, which the store never returns.
GetByNameStatus(found) == IF found THEN 200 ELSE 500

\* ------------------------------------------------- handlers: cache writes
Put(routes, key, api) ==
    [k \in (DOMAIN routes) \cup {key} |-> IF k = key THEN api ELSE routes[k]]

Remove(routes, key) == [k \in (DOMAIN routes) \ {key} |-> routes[k]]

CacheAfterCreate(routes, api) == Put(routes, DocKey(api), api)

\* (mutant) the old key is never removed
RemoveOldKey_Keep(routes, oldKey, newKey) == routes

\* if oldKey != newKey && oldKey != "" { delete(h.dynamicRoutes, oldKey) }
RemoveOldKey(routes, oldKey, newKey) ==
    IF oldKey # newKey /\ oldKey # "" THEN Remove(routes, oldKey) ELSE routes

CacheAfterDelete(routes, keyToDelete) == Remove(routes, keyToDelete)

\* h.routesMutex, a sync.RWMutex.  UpdateAPI holds it exclusively over two map
\* operations, i.e. while it stands at "u_remove" or "u_insert"; every other
\* holder takes and releases it within one step.
\* (mutant) the lookup reads the table without the lock
RLock_None(reqs) == TRUE

\* h.routesMutex.RLock() returns only while no writer holds the mutex
RLock(reqs) == \A v \in DOMAIN reqs : reqs[v].pc \notin {"u_remove", "u_insert"}

\* h.routesMutex.Lock() returns only while nobody holds the mutex
Lock(reqs) == \A v \in DOMAIN reqs : reqs[v].pc \notin {"u_remove", "u_insert"}

\* ---------------------------------------------------------------- requests
Idle == [kind |-> "idle", pc |-> "idle", name |-> "", payload |-> NoPayload,
         oldKey |-> "", existing |-> NoDoc, updated |-> NoDoc, status |-> 0,
         pre |-> <<>>, path |-> <<>>, hit |-> FALSE, params |-> {}]

\* The store and route table at the start of a request (kept only when requests
\* do not overlap, where "before the request" is one state).
Snapshot == IF overlap THEN <<>> ELSE <<store, dynamicRoutes>>

CanStart(w) ==
    /\ req[w].pc = "idle"
    /\ nStarted < MaxRequests
    /\ overlap \/ \A v \in Workers \ {w} : req[v].pc = "idle"

Begin(w, kind, pc, name, payload) ==
    /\ CanStart(w)
    /\ req' = [req EXCEPT ![w] = [Idle EXCEPT !.kind = kind, !.pc = pc, !.name = name,
                                             !.payload = payload, !.pre = Snapshot]]
    /\ nStarted' = nStarted + 1
    /\ UNCHANGED <<store, uniqueIndexes, dynamicRoutes, nextId, overlap, dynVars, auxVars>>

\* The handler returns: its locals are gone, the response status stays.
Finish(w, status) ==
    [Idle EXCEPT !.kind = req[w].kind, !.pc = "done", !.name = req[w].name,
                 !.payload = req[w].payload, !.pre = req[w].pre, !.status = status]

\* POST /api-generator/create
StartCreate(w) ==
    \E p \in {q \in Payloads : q.body = "v1"} :
        /\ nextId + Cardinality({v \in Workers : req[v].kind = "create" /\ req[v].pc # "done"})
              <= MaxCreates
        /\ Begin(w, "create", "c_countName", p.name, p)

\* PUT /api-generator/update/:name (the payload's name is not used)
StartUpdate(w) ==
    \E n \in Names, p \in {q \in Payloads : q.name = "A"} :
        Begin(w, "update", "u_get", n, p)

\* DELETE /api-generator/delete/:name
StartDelete(w) == \E n \in Names : Begin(w, "delete", "d_get", n, NoPayload)

\* GET /api-generator/detail/:name
StartDetail(w) == \E n \in Names : Begin(w, "detail", "g_get", n, NoPayload)

\* --- CreateAPI -> Store.CreateAPIDefinition
CreateCountName(w) ==
    /\ req[w].pc = "c_countName"
    /\ LET api == req[w].payload IN
       req' = [req EXCEPT ![w] =
                 IF CreateMissingRequired(api)
                   THEN Finish(w, CreateErrorStatus("ErrMissingRequiredFields"))
                 ELSE IF CountName(store, api.name) > 0
                   THEN Finish(w, CreateErrorStatus("ErrDuplicateName"))
                 ELSE [req[w] EXCEPT !.pc = "c_countEndpoint"]]
    /\ UNCHANGED <<store, uniqueIndexes, dynamicRoutes, nextId, overlap, nStarted, dynVars, auxVars>>

CreateCountEndpoint(w) ==
    /\ req[w].pc = "c_countEndpoint"
    /\ LET api == req[w].payload IN
       req' = [req EXCEPT ![w] =
                 IF CountEndpoint(store, api.method, api.endpoint) > 0
                   THEN Finish(w, CreateErrorStatus("ErrDuplicateEndpoint"))
                 ELSE [req[w] EXCEPT !.pc = "c_insert"]]
    /\ UNCHANGED <<store, uniqueIndexes, dynamicRoutes, nextId, overlap, nStarted, dynVars, auxVars>>

CreateInsert(w) ==
    /\ req[w].pc = "c_insert"
    /\ LET p == req[w].payload
           doc == [id |-> nextId, name |-> p.name, method |-> p.method,
                   endpoint |-> p.endpoint, database |-> p.database,
                   collection |-> p.collection, body |-> p.body]
           dup == IF uniqueIndexes THEN InsertDuplicateKey(store, doc) ELSE "nil"
       IN /\ nextId' = nextId + 1
          /\ IF dup # "nil"
               THEN /\ req' = [req EXCEPT ![w] = Finish(w, CreateErrorStatus(dup))]
                    /\ store' = store
               ELSE /\ store' = store \cup {doc}
                    /\ req' = [req EXCEPT ![w] = [req[w] EXCEPT !.pc = "c_cache", !.updated = doc]]
    /\ UNCHANGED <<uniqueIndexes, dynamicRoutes, overlap, nStarted, dynVars, auxVars>>

CreateCache(w) ==
    /\ req[w].pc = "c_cache"
    /\ Lock(req)
    /\ dynamicRoutes' = CacheAfterCreate(dynamicRoutes, req[w].updated)
    /\ req' = [req EXCEPT ![w] = Finish(w, 201)]
    /\ UNCHANGED <<store, uniqueIndexes, nextId, overlap, nStarted, dynVars, auxVars>>

\* --- UpdateAPI: GetAPIDefinitionByName for the old cache key
UpdateGet(w) ==
    /\ req[w].pc = "u_get"
    /\ IF ByName(store, req[w].name) = {}
         THEN req' = [req EXCEPT ![w] = Finish(w, GetByNameStatus(FALSE))]
         ELSE \E d \in ByName(store, req[w].name) :
                req' = [req EXCEPT ![w] = [req[w] EXCEPT !.pc = "u_findOne", !.oldKey = DocKey(d)]]
    /\ UNCHANGED <<store, uniqueIndexes, dynamicRoutes, nextId, overlap, nStarted, dynVars, auxVars>>

\* --- Store.UpdateAPIDefinition: validation and FindOne by name
UpdateFindOne(w) ==
    /\ req[w].pc = "u_findOne"
    /\ LET p == req[w].payload IN
       IF UpdateMissingRequired(p)
         THEN req' = [req EXCEPT ![w] = Finish(w, UpdateErrorStatus("ErrMissingRequiredFields"))]
       ELSE IF ByName(store, req[w].name) = {}
         THEN req' = [req EXCEPT ![w] = Finish(w, UpdateErrorStatus("ErrNotFound"))]
       ELSE \E d \in ByName(store, req[w].name) :
              req' = [req EXCEPT ![w] =
                        [req[w] EXCEPT !.existing = d,
                           !.pc = IF d.method # p.method \/ d.endpoint # p.endpoint
                                    THEN "u_conflict" ELSE "u_updateOne"]]
    /\ UNCHANGED <<store, uniqueIndexes, dynamicRoutes, nextId, overlap, nStarted, dynVars, auxVars>>

UpdateConflict(w) ==
    /\ req[w].pc = "u_conflict"
    /\ LET p == req[w].payload IN
       req' = [req EXCEPT ![w] =
                 IF ConflictCount(store, p.method, p.endpoint, req[w].existing.id) > 0
                   THEN Finish(w, UpdateErrorStatus("ErrDuplicateEndpoint"))
                 ELSE [req[w] EXCEPT !.pc = "u_updateOne"]]
    /\ UNCHANGED <<store, uniqueIndexes, dynamicRoutes, nextId, overlap, nStarted, dynVars, auxVars>>

\* UpdateOne by name.  ModifiedCount is 0 when the $set changes nothing, which
\* needs the same fields and the same updatedAt millisecond: `sameInstant`.
UpdateOne(w) ==
    /\ req[w].pc = "u_updateOne"
    /\ LET p == req[w].payload IN
       IF ByName(store, req[w].name) = {}
         THEN /\ req' = [req EXCEPT ![w] = Finish(w, UpdateErrorStatus("ErrNotFound"))]
              /\ store' = store
       ELSE \E d \in ByName(store, req[w].name), sameInstant \in BOOLEAN :
              LET new == ApplyUpdate(d, p) IN
              IF uniqueIndexes /\ ConflictCount(store, new.method, new.endpoint, d.id) > 0
                THEN /\ req' = [req EXCEPT ![w] = Finish(w, UpdateErrorStatus("ErrDuplicateEndpoint"))]
                     /\ store' = store
              ELSE /\ store' = (store \ {d}) \cup {new}
                   /\ req' = [req EXCEPT ![w] =
                        IF new = d /\ sameInstant
                          THEN [req[w] EXCEPT !.pc = "u_cache", !.updated = req[w].existing]
                          ELSE [req[w] EXCEPT !.pc = "u_fetch"]]
    /\ UNCHANGED <<uniqueIndexes, dynamicRoutes, nextId, overlap, nStarted, dynVars, auxVars>>

\* FindOne by _id of the updated document
UpdateFetch(w) ==
    /\ req[w].pc = "u_fetch"
    /\ LET found == {d \in store : d.id = req[w].existing.id} IN
       IF found = {}
         THEN req' = [req EXCEPT ![w] = Finish(w, UpdateErrorStatus("ErrOther"))]
         ELSE \E d \in found :
                req' = [req EXCEPT ![w] = [req[w] EXCEPT !.pc = "u_cache", !.updated = d]]
    /\ UNCHANGED <<store, uniqueIndexes, dynamicRoutes, nextId, overlap, nStarted, dynVars, auxVars>>

\* h.routesMutex.Lock()
UpdateLock(w) ==
    /\ req[w].pc = "u_cache"
    /\ Lock(req)
    /\ req' = [req EXCEPT ![w] = [req[w] EXCEPT !.pc = "u_remove"]]
    /\ UNCHANGED <<store, uniqueIndexes, dynamicRoutes, nextId, overlap, nStarted, dynVars, auxVars>>

\* the old key goes, under the lock
UpdateRemoveOld(w) ==
    /\ req[w].pc = "u_remove"
    /\ dynamicRoutes' = RemoveOldKey(dynamicRoutes, req[w].oldKey, DocKey(req[w].updated))
    /\ req' = [req EXCEPT ![w] = [req[w] EXCEPT !.pc = "u_insert"]]
    /\ UNCHANGED <<store, uniqueIndexes, nextId, overlap, nStarted, dynVars, auxVars>>

\* h.dynamicRoutes[newKey] = *updatedAPI; h.routesMutex.Unlock(); the response
UpdateCache(w) ==
    /\ req[w].pc = "u_insert"
    /\ dynamicRoutes' = Put(dynamicRoutes, DocKey(req[w].updated), req[w].updated)
    /\ req' = [req EXCEPT ![w] = Finish(w, 200)]
    /\ UNCHANGED <<store, uniqueIndexes, nextId, overlap, nStarted, dynVars, auxVars>>

\* --- DeleteAPI
DeleteGet(w) ==
    /\ req[w].pc = "d_get"
    /\ IF ByName(store, req[w].name) = {}
         THEN req' = [req EXCEPT ![w] = Finish(w, GetByNameStatus(FALSE))]
         ELSE \E d \in ByName(store, req[w].name) :
                req' = [req EXCEPT ![w] = [req[w] EXCEPT !.pc = "d_deleteOne", !.oldKey = DocKey(d)]]
    /\ UNCHANGED <<store, uniqueIndexes, dynamicRoutes, nextId, overlap, nStarted, dynVars, auxVars>>

\* DeleteAPIDefinitionByName: DeletedCount 0 comes back as ErrNotFound (500)
DeleteOne(w) ==
    /\ req[w].pc = "d_deleteOne"
    /\ IF ByName(store, req[w].name) = {}
         THEN /\ req' = [req EXCEPT ![w] = Finish(w, 500)]
              /\ store' = store
         ELSE \E d \in ByName(store, req[w].name) :
                /\ store' = store \ {d}
                /\ req' = [req EXCEPT ![w] = [req[w] EXCEPT !.pc = "d_cache"]]
    /\ UNCHANGED <<uniqueIndexes, dynamicRoutes, nextId, overlap, nStarted, dynVars, auxVars>>

DeleteCache(w) ==
    /\ req[w].pc = "d_cache"
    /\ Lock(req)
    /\ dynamicRoutes' = CacheAfterDelete(dynamicRoutes, req[w].oldKey)
    /\ req' = [req EXCEPT ![w] = Finish(w, 200)]
    /\ UNCHANGED <<store, uniqueIndexes, nextId, overlap, nStarted, dynVars, auxVars>>

\* --- GetAPIDetail
GetAPIDetail(w) ==
    /\ req[w].pc = "g_get"
    /\ req' = [req EXCEPT ![w] = Finish(w, GetByNameStatus(ByName(store, req[w].name) # {}))]
    /\ UNCHANGED <<store, uniqueIndexes, dynamicRoutes, nextId, overlap, nStarted, dynVars, auxVars>>

\* The response has been sent; the worker is free again.
Respond(w) ==
    /\ req[w].pc = "done"
    /\ req' = [req EXCEPT ![w] = Idle]
    /\ UNCHANGED <<store, uniqueIndexes, dynamicRoutes, nextId, overlap, nStarted, dynVars, auxVars>>

\* ------------------------------------------------- dispatcher: the lookup
\* The handler is mounted with app.Use(h.DynamicAPIHandler): no route pattern,
\* so the router binds no path parameter and c.AllParams() is empty.
AllParams(path) == {}

\* GET|POST <path>: a dynamic request
StartDynamic(w) ==
    \E m \in Methods, p \in ReqPaths :
        /\ CanStart(w)
        /\ req' = [req EXCEPT ![w] = [Idle EXCEPT !.kind = "dynamic", !.pc = "l_lookup",
                                                 !.payload = [NoPayload EXCEPT !.method = m],
                                                 !.path = p, !.pre = Snapshot]]
        /\ nStarted' = nStarted + 1
        /\ UNCHANGED <<store, uniqueIndexes, dynamicRoutes, nextId, overlap, dynVars, auxVars>>

\* key := c.Method() + ":" + c.Path(), looked up under the read lock; a miss
\* passes the request on (c.Next()), which ends in the router's 404.
DynamicLookup(w) ==
    /\ req[w].pc = "l_lookup"
    /\ RLock(req)
    /\ LET key == RouteKey(req[w].payload.method, req[w].path)
           exists == key \in DOMAIN dynamicRoutes
       IN req' = [req EXCEPT ![w] =
                    [Finish(w, IF exists THEN 200 ELSE 404) EXCEPT
                        !.path = req[w].path, !.hit = exists,
                        !.updated = IF exists THEN dynamicRoutes[key] ELSE NoDoc,
                        !.params = IF exists THEN AllParams(req[w].path) ELSE {}]]
    /\ UNCHANGED <<store, uniqueIndexes, dynamicRoutes, nextId, overlap, nStarted, dynVars, auxVars>>

(***************************************************************************)
(* Part II: the dispatcher and the flow interpreter.                       *)
(*                                                                         *)
(* Go maps are references, so the maps of a request and the maps inside a  *)
(* definition (the object literals of its JSON payload) live on a heap and *)
(* values refer to them by address.  A reference carries the Go type it is *)
(* held under (map[string]interface{}, fiber.Map, bson.M), because the     *)
(* code's type assertions and type switches tell these apart.  Documents   *)
(* decoded from the store are primitive.D values, which no code writes to; *)
(* they are immutable values of the model.                                 *)
(*                                                                         *)
(* A string that starts with "$" is held parsed, as the path it names; a   *)
(* dotted field name is held as the sequence of its parts.                 *)
(***************************************************************************)

\* Dynamic requests started per behaviour.
MaxDynamic == 2

\* ------------------------------------------------------------------ values
Nil == [t |-> "nil"]
Str(s) == [t |-> "str", s |-> s]
Num(n) == [t |-> "num", n |-> n]
Bool(b) == [t |-> "bool", b |-> b]
\* the string "$a.b" is Var(<<"a", "b">>)
Var(path) == [t |-> "var", path |-> path]
\* map[string]interface{}, fiber.Map and bson.M values sharing storage `a`
MapRef(a) == [t |-> "ref", kind |-> "map", a |-> a]
FiberMap(a) == [t |-> "ref", kind |-> "fiber", a |-> a]
BsonM(a) == [t |-> "ref", kind |-> "bsonM", a |-> a]
\* primitive.D
BsonD(m) == [t |-> "bsonD", m |-> m]
\* []bson.M, the result of FindData
Results(docs) == [t |-> "results", docs |-> docs]

\* []interface{}; a slice is never written in place by the code modelled here
List(items) == [t |-> "list", items |-> items]
\* primitive.A, what an array decodes to; no []interface{} assertion accepts it
BsonA(items) == [t |-> "bsonA", items |-> items]

\* v.(map[string]interface{}) succeeds
IsPlainMap(v) == v.t = "ref" /\ v.kind = "map"
\* v.(fiber.Map) succeeds
IsFiberMap(v) == v.t = "ref" /\ v.kind = "fiber"

\* strings.Join(parts, ".")
RECURSIVE Join(_)
Join(parts) ==
    IF Len(parts) = 1 THEN parts[1] ELSE parts[1] \o "." \o Join(Tail(parts))

\* A fixed iteration order over the keys of a map.
RECURSIVE KeySeq(_)
KeySeq(S) ==
    IF S = {} THEN <<>>
    ELSE LET k == CHOOSE x \in S : TRUE IN <<k>> \o KeySeq(S \ {k})

\* -------------------------------------------------------------------- heap
\* make(map[string]interface{}) filled with m; `owner` is the request that
\* allocated it, 0 for the maps of the registered definitions.
Alloc(h, owner, m) == Append(h, [owner |-> owner, m |-> m])

\* m[k] = v on the map at address a
MapStore(h, a, k, v) == [h EXCEPT ![a].m = Put(@, k, v)]

\* delete(m, k)
MapDelete(h, a, k) == [h EXCEPT ![a].m = Remove(@, k)]

Has(h, a, k) == k \in DOMAIN h[a].m

\* m[k]: the zero value (nil) when the key is absent
Get(h, a, k) == IF Has(h, a, k) THEN h[a].m[k] ELSE Nil

\* ------------------------------------------------------------- conversions
\* bson.Marshal followed by a decode into interface{}: maps become documents.
RECURSIVE ToBSON(_, _)
ToBSON(h, v) ==
    CASE v.t = "ref" -> BsonD([k \in DOMAIN h[v.a].m |-> ToBSON(h, h[v.a].m[k])])
      [] v.t = "bsonD" -> BsonD([k \in DOMAIN v.m |-> ToBSON(h, v.m[k])])
      [] v.t \in {"list", "bsonA"} -> BsonA([i \in DOMAIN v.items |-> ToBSON(h, v.items[i])])
      [] OTHER -> v

\* json.Marshal, as c.JSON does: a map is an object, a primitive.D a list of
\* {Key, Value} pairs, a []bson.M a list of objects.
RECURSIVE ToJSON(_, _)
ToJSON(h, v) ==
    CASE v.t = "ref" -> [t |-> "object", m |-> [k \in DOMAIN h[v.a].m |-> ToJSON(h, h[v.a].m[k])]]
      [] v.t = "bsonD" -> [t |-> "pairs", m |-> [k \in DOMAIN v.m |-> ToJSON(h, v.m[k])]]
      [] v.t = "results" ->
           [t |-> "array",
            docs |-> [i \in DOMAIN v.docs |->
                        [t |-> "object",
                         m |-> [k \in DOMAIN v.docs[i] |-> ToJSON(h, v.docs[i][k])]]]]
      [] OTHER -> v

\* What reflect.DeepEqual compares: the dynamic type and the contents.
RECURSIVE Deep(_, _)
Deep(h, v) ==
    CASE v.t = "ref" ->
           [t |-> "map", kind |-> v.kind,
            m |-> [k \in DOMAIN h[v.a].m |-> Deep(h, h[v.a].m[k])]]
      [] v.t = "list" ->
           [t |-> "list", items |-> [i \in DOMAIN v.items |-> Deep(h, v.items[i])]]
      [] OTHER -> v

\* float64 values are held exactly, as fractions p/q in lowest terms with q > 0;
\* the numbers of this model are far from the range where float64 rounds.
RECURSIVE GCD(_, _)
GCD(a, b) == IF b = 0 THEN a ELSE GCD(b, a % b)

Rat(p, q) ==
    LET n == IF q < 0 THEN 0 - p ELSE p
        d == IF q < 0 THEN 0 - q ELSE q
        g == GCD(IF n < 0 THEN 0 - n ELSE n, d)
    IN [p |-> IF n < 0 THEN 0 - ((0 - n) \div g) ELSE n \div g, q |-> d \div g]

RatAdd(a, b) == Rat(a.p * b.q + b.p * a.q, a.q * b.q)

RatMul(a, b) == Rat(a.p * b.p, a.q * b.q)

\* The float64 stored in a map: a whole number is Num(n), any other the
\* fraction itself.
Float(r) ==
    IF r.q = 1 THEN [t |-> "num", n |-> r.p]
    ELSE [t |-> "quotient", dividend |-> r.p, divisor |-> r.q]

\* strconv.ParseFloat on the strings of this model: the decimal numerals parse.
Numerals == ("0" :> 0) @@ ("1" :> 1) @@ ("2" :> 2) @@ ("7" :> 7) @@ ("10" :> 10)

\* convertToFloat64: numbers, numeric strings and booleans convert.
convertToFloat64(val) ==
    CASE val.t = "num" -> [ok |-> TRUE, n |-> val.n]
      [] val.t = "str" -> IF val.s \in DOMAIN Numerals
                            THEN [ok |-> TRUE, n |-> Numerals[val.s]]
                            ELSE [ok |-> FALSE, n |-> 0]
      [] val.t = "bool" -> [ok |-> TRUE, n |-> IF val.b THEN 1 ELSE 0]
      [] val.t \in {"nil", "ref", "list", "var", "bsonD", "bsonA"} -> [ok |-> FALSE, n |-> 0]

\* fmt.Sprintf("%v", v)
RECURSIVE Format(_, _), FormatEntries(_, _, _), FormatItems(_, _)
Format(h, v) ==
    CASE v.t = "nil" -> "<nil>"
      [] v.t = "str" -> v.s
      [] v.t = "var" -> "$" \o Join(v.path)
      [] v.t = "num" -> ToString(v.n)
      [] v.t = "bool" -> IF v.b THEN "true" ELSE "false"
      [] v.t = "ref" -> "map[" \o FormatEntries(h, h[v.a].m, KeySeq(DOMAIN h[v.a].m)) \o "]"
      [] v.t \in {"list", "bsonA"} -> "[" \o FormatItems(h, v.items) \o "]"

FormatEntries(h, m, keys) ==
    IF keys = <<>> THEN ""
    ELSE Head(keys) \o ":" \o Format(h, m[Head(keys)])
           \o (IF Len(keys) > 1 THEN " " ELSE "") \o FormatEntries(h, m, Tail(keys))

FormatItems(h, items) ==
    IF items = <<>> THEN ""
    ELSE Format(h, Head(items)) \o (IF Len(items) > 1 THEN " " ELSE "")
           \o FormatItems(h, Tail(items))

\* ------------------------------------------------------- flow definitions
\* models.Condition, Transformation, ApiCall, ActionDefinition, ConditionalBlock;
\* a nil pointer is the record tagged "nil...".
Cond(field, operator, value) == [field |-> field, operator |-> operator, value |-> value]
\* Transformation.Formula "<op>:<arg>,<arg>,..." is held split at the colon and
\* the commas; an argument is Num(n) for a numeral, Var(path) for "$path",
\* Decimal(p, q) for a numeral with a fraction (1.5 is Decimal(3, 2)),
\* NegNum(n) for "-n", NegVar(path) for "-$path" and Junk for anything else.
NoFormula == [t |-> "noFormula"]
Malformed == [t |-> "malformed"]
Formula(op, args) == [t |-> "formula", op |-> op, args |-> args]
NegVar(path) == [t |-> "negvar", path |-> path]
NegNum(n) == [t |-> "negnum", n |-> n]
Decimal(p, q) == [t |-> "dec", p |-> p, q |-> q]
Junk == [t |-> "junk"]
Transformation(operation, field, value, formula) ==
    [operation |-> operation, field |-> field, value |-> value, formula |-> formula]
Set(field, value) == Transformation("set", field, value, NoFormula)
RemoveField(field) == Transformation("remove", field, Nil, NoFormula)
AppendValue(field, value) == Transformation("append", field, value, NoFormula)
Calculate(field, formula) == Transformation("calculate", field, Nil, formula)
NilApiCall == [t |-> "nilApiCall"]
ApiCall(apiName, parameters, resultField) ==
    [t |-> "apiCall", apiName |-> apiName, parameters |-> parameters,
     resultField |-> resultField]
NilBlock == [t |-> "nilBlock"]
NilAction == [t |-> "nilAction"]
Block(conditions, then, else) ==
    [t |-> "block", conditions |-> conditions, then |-> then, else |-> else]
Action(type, transform, returnData, saveData, conditionalFlow, apiCall) ==
    [t |-> "action", type |-> type, transform |-> transform, returnData |-> returnData,
     saveData |-> saveData, conditionalFlow |-> conditionalFlow, apiCall |-> apiCall]

\* ------------------------------------------------------ path resolution
\* The loop of SubstituteVariables and of the apiCall parameters: every step
\* needs a map[string]interface{} that has the part.
RECURSIVE Traverse(_, _, _)
Traverse(h, value, parts) ==
    IF parts = <<>> THEN [ok |-> TRUE, v |-> value]
    ELSE IF IsPlainMap(value) /\ Has(h, value.a, Head(parts))
      THEN Traverse(h, h[value.a].m[Head(parts)], Tail(parts))
      ELSE [ok |-> FALSE, v |-> Nil]

\* ---------------------------------------------------- SubstituteVariables
\* Results are [h |-> the heap after the call, v |-> the value returned].
RECURSIVE SubstituteVariables(_, _, _, _), SubstituteEntries(_, _, _, _, _, _),
          SubstituteItems(_, _, _, _, _)
\* (mutant) maps and lists are returned as they are
SubstituteVariables_Shallow(h, owner, template, data) ==
    IF template.t = "var"
      THEN [h |-> h, v |-> Traverse(h, MapRef(data), template.path).v]
      ELSE [h |-> h, v |-> template]

SubstituteVariables(h, owner, template, data) ==
    CASE template.t = "nil" -> [h |-> h, v |-> Nil]
      [] template.t = "var" ->
           [h |-> h, v |-> Traverse(h, MapRef(data), template.path).v]
      [] IsPlainMap(template) ->
           LET r == SubstituteEntries(h, owner, KeySeq(DOMAIN h[template.a].m),
                                      h[template.a].m, data, <<>>)
           IN [h |-> Alloc(r.h, owner, r.m), v |-> MapRef(Len(r.h) + 1)]
      [] template.t = "list" ->
           LET r == SubstituteItems(h, owner, template.items, data, <<>>)
           IN [h |-> r.h, v |-> List(r.items)]
      [] OTHER -> [h |-> h, v |-> template]

\* newSlice[i] = SubstituteVariables(v, data) for every element of the template
SubstituteItems(h, owner, items, data, newSlice) ==
    IF items = <<>> THEN [h |-> h, items |-> newSlice]
    ELSE LET s == SubstituteVariables(h, owner, Head(items), data)
         IN SubstituteItems(s.h, owner, Tail(items), data, Append(newSlice, s.v))

\* newMap[k] = SubstituteVariables(v, data) for every entry of the template
SubstituteEntries(h, owner, keys, tm, data, newMap) ==
    IF keys = <<>> THEN [h |-> h, m |-> newMap]
    ELSE LET s == SubstituteVariables(h, owner, tm[Head(keys)], data)
         IN SubstituteEntries(s.h, owner, Tail(keys), tm, data,
                              Put(newMap, Head(keys), s.v))

\* ---------------------------------------------------- ApplyTransformations
\* getValueAsFloat(arg, data): a "$path" argument is looked up and converted, a
\* numeral is scanned, anything else fails.
getValueAsFloat(h, arg, data) ==
    CASE arg.t = "var" ->
           IF Traverse(h, MapRef(data), arg.path).ok
             THEN LET c == convertToFloat64(Traverse(h, MapRef(data), arg.path).v)
                  IN [ok |-> c.ok, n |-> Rat(c.n, 1)]
             ELSE [ok |-> FALSE, n |-> Rat(0, 1)]
      [] arg.t = "num" -> [ok |-> TRUE, n |-> Rat(arg.n, 1)]
      [] arg.t = "dec" -> [ok |-> TRUE, n |-> Rat(arg.p, arg.q)]
      [] arg.t = "negnum" -> [ok |-> TRUE, n |-> Rat(0 - arg.n, 1)]
      [] arg.t \in {"negvar", "junk"} -> [ok |-> FALSE, n |-> Rat(0, 1)]

\* (mutant) no term is added
SumArgs_None(h, args, data, calcResult) == calcResult

\* add, sum: a leading "-" subtracts the term; a term without value is skipped.
RECURSIVE SumArgs(_, _, _, _)
SumArgs(h, args, data, calcResult) ==
    IF args = <<>> THEN calcResult
    ELSE LET isSubtract == Head(args).t \in {"negvar", "negnum"}
             arg == CASE Head(args).t = "negvar" -> Var(Head(args).path)
                      [] Head(args).t = "negnum" -> Num(Head(args).n)
                      [] OTHER -> Head(args)
             numVal == getValueAsFloat(h, arg, data)
         IN SumArgs(h, Tail(args), data,
                    IF ~numVal.ok THEN calcResult
                    ELSE IF isSubtract THEN RatAdd(calcResult, RatMul(Rat(-1, 1), numVal.n))
                    ELSE RatAdd(calcResult, numVal.n))

\* multiply, product: 0 when no operand has a value.
RECURSIVE ProductArgs(_, _, _, _, _)
ProductArgs(h, args, data, calcResult, hasValidOperand) ==
    IF args = <<>> THEN (IF hasValidOperand THEN calcResult ELSE Rat(0, 1))
    ELSE LET numVal == getValueAsFloat(h, Head(args), data)
         IN IF numVal.ok
              THEN ProductArgs(h, Tail(args), data, RatMul(calcResult, numVal.n), TRUE)
              ELSE ProductArgs(h, Tail(args), data, calcResult, hasValidOperand)

\* subtract: the subtrahends after the minuend; one without value is skipped.
RECURSIVE SubtractArgs(_, _, _, _)
SubtractArgs(h, args, data, calcResult) ==
    IF args = <<>> THEN calcResult
    ELSE LET numVal == getValueAsFloat(h, Head(args), data)
         IN SubtractArgs(h, Tail(args), data,
                         IF numVal.ok
                           THEN RatAdd(calcResult, RatMul(Rat(-1, 1), numVal.n))
                           ELSE calcResult)

\* (mutant) a division by zero makes the calculation impossible
Quotient_ZeroFails(dividend, divisor) ==
    IF divisor.p = 0 THEN [ok |-> FALSE, n |-> Rat(0, 1)]
    ELSE [ok |-> TRUE, n |-> Rat(dividend.p * divisor.q, dividend.q * divisor.p)]

\* divide: 0 when the divisor is 0, else dividend / divisor.
Quotient(dividend, divisor) ==
    IF divisor.p = 0 THEN [ok |-> TRUE, n |-> Rat(0, 1)]
    ELSE [ok |-> TRUE, n |-> Rat(dividend.p * divisor.q, dividend.q * divisor.p)]

\* (mutant) a calculation that is not possible gives 0
CalcResult_ZeroOnFailure(h, formula, data) == [ok |-> TRUE, v |-> Num(0)]

\* The switch on calcOp: [ok |-> calculationPossible, v |-> calcResult].
CalcResult(h, formula, data) ==
    CASE formula.op \in {"add", "sum"} ->
           [ok |-> TRUE, v |-> Float(SumArgs(h, formula.args, data, Rat(0, 1)))]
      [] formula.op \in {"multiply", "product"} ->
           [ok |-> TRUE, v |-> Float(ProductArgs(h, formula.args, data, Rat(1, 1), FALSE))]
      [] formula.op = "subtract" ->
           IF Len(formula.args) < 2 \/ ~getValueAsFloat(h, formula.args[1], data).ok
             THEN [ok |-> FALSE, v |-> Nil]
             ELSE [ok |-> TRUE,
                   v |-> Float(SubtractArgs(h, Tail(formula.args), data,
                                            getValueAsFloat(h, formula.args[1], data).n))]
      [] formula.op = "divide" ->
           IF \/ Len(formula.args) # 2
              \/ ~getValueAsFloat(h, formula.args[1], data).ok
              \/ ~getValueAsFloat(h, formula.args[2], data).ok
             THEN [ok |-> FALSE, v |-> Nil]
             ELSE LET q == Quotient(getValueAsFloat(h, formula.args[1], data).n,
                                    getValueAsFloat(h, formula.args[2], data).n)
                  IN [ok |-> q.ok, v |-> IF q.ok THEN Float(q.n) ELSE Nil]
      [] OTHER -> [ok |-> FALSE, v |-> Nil]

\* case "append", with the substituted value s.v
AppendOne(s, tr, a) ==
    IF ~Has(s.h, a, tr.field) \/ s.h[a].m[tr.field] = Nil
      THEN MapStore(s.h, a, tr.field, s.v)
      ELSE MapStore(s.h, a, tr.field,
                    Str(Format(s.h, s.h[a].m[tr.field]) \o Format(s.h, s.v)))

\* (mutant) set concatenates onto the field, as append does
ApplyOne_SetAppends(h, owner, tr, a) ==
    CASE tr.operation = "set" -> AppendOne([h |-> h, v |-> tr.value], tr, a)
      [] tr.operation = "remove" -> MapDelete(h, a, tr.field)
      [] OTHER -> h

\* One transformation on the copy at address a; an unknown operation is skipped.
ApplyOne(h, owner, tr, a) ==
    CASE tr.operation = "set" ->
           IF tr.value.t = "var"
             THEN LET s == SubstituteVariables(h, owner, tr.value, a)
                  IN IF s.v # Nil THEN MapStore(s.h, a, tr.field, s.v) ELSE s.h
             ELSE MapStore(h, a, tr.field, tr.value)
      [] tr.operation = "remove" -> MapDelete(h, a, tr.field)
      [] tr.operation = "append" ->
           AppendOne(SubstituteVariables(h, owner, tr.value, a), tr, a)
      [] tr.operation = "calculate" ->
           IF tr.formula.t # "formula" \/ tr.field = "" THEN h
           ELSE IF CalcResult(h, tr.formula, a).ok
             THEN MapStore(h, a, tr.field, CalcResult(h, tr.formula, a).v)
             ELSE h
      [] OTHER -> h

RECURSIVE ApplyAll(_, _, _, _)
ApplyAll(h, owner, ts, a) ==
    IF ts = <<>> THEN h
    ELSE ApplyAll(ApplyOne(h, owner, Head(ts), a), owner, Tail(ts), a)

\* (mutant) the transformations are applied to the argument itself
ApplyTransformations_InPlace(h, owner, ts, data) ==
    [h |-> ApplyAll(h, owner, ts, data), a |-> data]

\* Result: [h, a], a the address of the map returned: the argument itself for an
\* empty list, else a shallow copy with the transformations applied.
ApplyTransformations(h, owner, ts, data) ==
    IF Len(ts) = 0 THEN [h |-> h, a |-> data]
    ELSE LET result == Len(h) + 1
         IN [h |-> ApplyAll(Alloc(h, owner, h[data].m), owner, ts, result),
             a |-> result]

\* ------------------------------------------------------- evaluateCondition
\* The loop over the dotted parts: false as soon as a step is not a map.
RECURSIVE CanWalk(_, _, _)
CanWalk(h, value, parts) ==
    IF parts = <<>> THEN TRUE
    ELSE IF IsPlainMap(value)
      THEN CanWalk(h, Get(h, value.a, Head(parts)), Tail(parts))
      ELSE FALSE

\* strings.Contains over the strings of this model
Affixes == {"", "a", "b", "c", "ab", "bc", "abc"}
Contains(s, substr) == \E pre, post \in Affixes : pre \o substr \o post = s

Compare(operator, fv, cv) ==
    CASE operator = "gt" -> fv > cv
      [] operator = "lt" -> fv < cv
      [] operator = "gte" -> fv >= cv
      [] operator = "lte" -> fv <= cv

\* After the loop the value is read again with the whole field as one key.
evaluateCondition(h, condition, data) ==
    LET key == Join(condition.field)
        exists == Has(h, data, key)
        fieldValue == Get(h, data, key)
    IN IF ~CanWalk(h, MapRef(data), condition.field) THEN FALSE
       ELSE IF ~exists THEN condition.operator = "neq"
       ELSE IF fieldValue = Nil
         THEN CASE condition.operator = "eq" -> condition.value = Nil
                [] condition.operator = "neq" -> condition.value # Nil
                [] OTHER -> FALSE
       ELSE CASE condition.operator = "eq" -> Deep(h, fieldValue) = Deep(h, condition.value)
              [] condition.operator = "neq" -> Deep(h, fieldValue) # Deep(h, condition.value)
              [] condition.operator = "contains" ->
                   /\ fieldValue.t = "str"
                   /\ condition.value.t = "str"
                   /\ Contains(fieldValue.s, condition.value.s)
              [] condition.operator = "in" ->
                   /\ condition.value.t = "list"
                   /\ \E i \in DOMAIN condition.value.items :
                          Deep(h, fieldValue) = Deep(h, condition.value.items[i])
              [] condition.operator \in {"gt", "lt", "gte", "lte"} ->
                   /\ convertToFloat64(fieldValue).ok
                   /\ convertToFloat64(condition.value).ok
                   /\ Compare(condition.operator, convertToFloat64(fieldValue).n,
                              convertToFloat64(condition.value).n)
              [] OTHER -> FALSE

\* (mutant) the loop stops at the first condition that holds
RECURSIVE evaluateConditions_Any(_, _, _)
evaluateConditions_Any(h, conditions, data) ==
    IF Len(conditions) = 0 THEN TRUE
    ELSE IF evaluateCondition(h, Head(conditions), data) THEN TRUE
    ELSE Len(conditions) > 1 /\ evaluateConditions_Any(h, Tail(conditions), data)

\* The loop over the conditions: false at the first one that is not met.
RECURSIVE evaluateConditions(_, _, _)
evaluateConditions(h, conditions, data) ==
    IF Len(conditions) = 0 THEN TRUE
    ELSE IF ~evaluateCondition(h, Head(conditions), data) THEN FALSE
    ELSE evaluateConditions(h, Tail(conditions), data)

\* ------------------------------------------------------- the interpreter
\* (responseToSend, finalDataState, shouldSave, err) and the heap after the call;
\* `final` is the address of the final data map, err = "" is a nil error.
Result(h, resp, final, save, err) ==
    [h |-> h, resp |-> resp, final |-> final, save |-> save, err |-> err]

\* fiber.Map{...}, a fresh map held as fiber.Map
ResultWithFiberMap(h, owner, m, final, save, err) ==
    Result(Alloc(h, owner, m), FiberMap(Len(h) + 1), final, save, err)

\* (mutant) the save flag of the action is dropped
ShouldSave_Never(action) == FALSE

\* shouldSave = action.SaveData
ShouldSave(action) == action.saveData

\* callParams of an apiCall: a "$path" parameter is resolved against the data and
\* left out when it resolves to nothing; any other value is passed as it is.
CallParams(h, parameters, data) ==
    LET resolved(k) == Traverse(h, MapRef(data), parameters[k].path).v
        kept == {k \in DOMAIN parameters :
                    parameters[k].t = "var" => resolved(k) # Nil}
    IN [k \in kept |-> IF parameters[k].t = "var" THEN resolved(k) ELSE parameters[k]]

\* The switch on the type of the target's response.
ProcessedResponse(h, owner, apiResponse) ==
    CASE apiResponse.t = "bsonD" ->
           [h |-> Alloc(h, owner, apiResponse.m), v |-> BsonM(Len(h) + 1)]
      [] IsFiberMap(apiResponse) ->
           [h |-> h, v |-> IF Has(h, apiResponse.a, "data")
                             THEN h[apiResponse.a].m["data"] ELSE apiResponse]
      [] OTHER -> [h |-> h, v |-> apiResponse]

\* Storing the call's result under resultField, creating the nested maps of a
\* dotted path on the way; not ok when a step of the path is not a map.
RECURSIVE StoreResult(_, _, _, _, _)
StoreResult(h, owner, current, parts, value) ==
    IF Len(parts) = 1 THEN [h |-> MapStore(h, current, parts[1], value), ok |-> TRUE]
    ELSE LET h1 == IF Has(h, current, parts[1]) THEN h
                   ELSE MapStore(Alloc(h, owner, <<>>), current, parts[1],
                                 MapRef(Len(h) + 1))
             next == h1[current].m[parts[1]]
         IN IF IsPlainMap(next)
              THEN StoreResult(h1, owner, next.a, Tail(parts), value)
              ELSE [h |-> h1, ok |-> FALSE]

RECURSIVE ProcessConditionalFlow(_, _, _, _, _), processAction(_, _, _, _, _),
          ExecuteAction(_, _, _, _), ApiCallAction(_, _, _, _, _),
          ApiCallWithParams(_, _, _, _, _, _, _)

\* (mutant) the error of the action is not passed on
ActionOutcome_ErrorDropped(r, owner) == [r EXCEPT !.err = ""]

\* What ProcessConditionalFlow makes of the result r of the selected action.
ActionOutcome(r, owner) ==
    IF r.err # ""
      THEN ResultWithFiberMap(r.h, owner, [error |-> Str(r.err)], r.final, FALSE, r.err)
      ELSE r

\* (mutant) the Then action is processed whatever the conditions say
ProcessConditionalFlow_AlwaysThen(h, owner, st, flow, initialData) ==
    IF flow.t = "nilBlock" \/ flow.then.t = "nilAction"
      THEN Result(h, MapRef(initialData), initialData, FALSE, "")
      ELSE ActionOutcome(processAction(h, owner, st, flow.then, initialData), owner)

ProcessConditionalFlow(h, owner, st, flow, initialData) ==
    IF flow.t = "nilBlock"
      THEN Result(h, MapRef(initialData), initialData, FALSE, "")
    ELSE LET actionToProcess ==
                 IF evaluateConditions(h, flow.conditions, initialData)
                   THEN flow.then ELSE flow.else
         IN IF actionToProcess.t = "nilAction"
              THEN Result(h, MapRef(initialData), initialData, FALSE, "")
              ELSE ActionOutcome(processAction(h, owner, st, actionToProcess, initialData),
                                 owner)

\* Transformations first, then the logic of the action type.
processAction(h, owner, st, action, dataBeforeAction) ==
    ExecuteAction(ApplyTransformations(h, owner, action.transform, dataBeforeAction),
                  owner, st, action)

\* returnMap[key] = kvPair["Value"] for an item that is a map with a string
\* under "Key"; any other item is passed over.
PairEntered(h, item, returnMap) ==
    IF IsPlainMap(item) /\ Has(h, item.a, "Key") /\ h[item.a].m["Key"].t \in {"str", "var"}
      THEN MapStore(h, returnMap, Format(h, h[item.a].m["Key"]), Get(h, item.a, "Value"))
      ELSE h

\* The loop over a returnData array; s = [h, v], v the finalReturnData so far:
\* after every item it is the substitution of returnMap as it then is.
RECURSIVE ReturnPairs(_, _, _, _, _)
ReturnPairs(s, owner, items, returnMap, data) ==
    IF items = <<>> THEN s
    ELSE ReturnPairs(SubstituteVariables(PairEntered(s.h, Head(items), returnMap), owner,
                                         MapRef(returnMap), data),
                     owner, Tail(items), returnMap, data)

\* The return case: an array goes through the loop above, with finalReturnData
\* nil before the first item; anything else is substituted as it is.
ReturnData(t, owner, action) ==
    IF action.returnData.t = "list"
      THEN ReturnPairs([h |-> Alloc(t.h, owner, <<>>), v |-> Nil], owner,
                       action.returnData.items, Len(t.h) + 1, t.a)
      ELSE SubstituteVariables(t.h, owner, action.returnData, t.a)

\* The switch on action.Type; t.a is dataAfterTransform, t.h the heap with it.
ExecuteAction(t, owner, st, action) ==
    CASE action.type = "return" ->
           LET s == ReturnData(t, owner, action)
           IN Result(s.h, s.v, t.a, ShouldSave(action), "")
      [] action.type = "conditionalBlock" ->
           IF action.conditionalFlow.t = "nilBlock"
             THEN Result(t.h, MapRef(t.a), t.a, ShouldSave(action), "")
             ELSE ProcessConditionalFlow(t.h, owner, st, action.conditionalFlow, t.a)
      [] action.type = "continue" ->
           Result(t.h, MapRef(t.a), t.a, ShouldSave(action), "")
      [] action.type = "apiCall" ->
           ApiCallAction(t.h, owner, st, action, t.a)
      [] OTHER ->
           ResultWithFiberMap(t.h, owner, [error |-> Str("unknown action type")],
                              t.a, FALSE, "unknown action type")

\* The end of an apiCall: f.a is the final state (the copy of the data map with
\* the transformations applied again); a returnData object is substituted and
\* returned as response and as final data.
ApiCallFinal(f, owner, action) ==
    IF IsPlainMap(action.returnData)
      THEN LET s == SubstituteVariables(f.h, owner, action.returnData, f.a)
           IN Result(s.h, s.v, s.v.a, ShouldSave(action), "")
      ELSE Result(f.h, MapRef(f.a), f.a, ShouldSave(action), "")

\* After the result was stored under resultField.
ApiCallStored(stored, owner, action, dataAfterTransform) ==
    IF ~stored.ok
      THEN ResultWithFiberMap(stored.h, owner,
               [status |-> Str("error"), message |-> Str("Invalid result field path")],
               dataAfterTransform, FALSE, "")
      ELSE ApiCallFinal(
               ApplyTransformations(
                   Alloc(stored.h, owner, stored.h[dataAfterTransform].m), owner,
                   action.transform, Len(stored.h) + 1),
               owner, action)

\* After the target's response was normalised to p.v.
ApiCallResponse(p, owner, action, dataAfterTransform) ==
    ApiCallStored(StoreResult(p.h, owner, dataAfterTransform,
                              action.apiCall.resultField, p.v),
                  owner, action, dataAfterTransform)

\* (mutant) the save flag of the target's flow is passed on
ApiCallReturned_TargetSaves(call, owner, action, dataAfterTransform) ==
    IF call.err # ""
      THEN ResultWithFiberMap(call.h, owner, [error |-> Str("API call failed")],
                              dataAfterTransform, FALSE, call.err)
      ELSE [ApiCallResponse(ProcessedResponse(call.h, owner, call.resp),
                            owner, action, dataAfterTransform)
              EXCEPT !.save = @ \/ call.save]

\* After the target's flow returned `call`.
ApiCallReturned(call, owner, action, dataAfterTransform) ==
    IF call.err # ""
      THEN ResultWithFiberMap(call.h, owner, [error |-> Str("API call failed")],
                              dataAfterTransform, FALSE, call.err)
      ELSE ApiCallResponse(ProcessedResponse(call.h, owner, call.resp),
                           owner, action, dataAfterTransform)

\* case "apiCall" of processAction, entered with the transformed data map: the
\* configuration, the target definition (read from the store), the parameters.
ApiCallAction(h, owner, st, action, dataAfterTransform) ==
    IF action.apiCall.t = "nilApiCall"
      THEN ResultWithFiberMap(h, owner,
               [status |-> Str("error"), message |-> Str("Invalid API call configuration")],
               dataAfterTransform, FALSE, "")
    ELSE IF ByName(st, action.apiCall.apiName) = {}
      THEN ResultWithFiberMap(h, owner, [error |-> Str("Failed to process API call")],
                              dataAfterTransform, FALSE, "ErrNotFound")
    ELSE ApiCallWithParams(h, owner, st, action, dataAfterTransform,
                           CHOOSE d \in ByName(st, action.apiCall.apiName) : TRUE,
                           CallParams(h, action.apiCall.parameters, dataAfterTransform))

\* The nil check of the parameters and the target's flow run on callParams.
ApiCallWithParams(h, owner, st, action, dataAfterTransform, targetAPI, params) ==
    IF \E k \in DOMAIN params : params[k] = Nil
      THEN ResultWithFiberMap(Alloc(h, owner, params), owner,
               [status |-> Str("error"), message |-> Str("Missing required parameter")],
               dataAfterTransform, FALSE, "")
      ELSE ApiCallReturned(
               ProcessConditionalFlow(Alloc(h, owner, params), owner, st,
                                      targetAPI.body.conditionalFlow, Len(h) + 1),
               owner, action, dataAfterTransform)

\* --------------------------------------------- the dynamic data collection
\* Documents are field -> value functions; the generated _id is not represented.
\* fmt.Sprintf("%v", v) == "" holds for the empty string only.
IsEmptyValue(v) == v = Nil \/ v = Str("")

Matches(doc, filter) ==
    \A k \in DOMAIN filter : k \in DOMAIN doc /\ doc[k] = filter[k]

\* $set of `fields` on a document
SetFields(doc, fields) ==
    [k \in DOMAIN doc \cup DOMAIN fields |-> IF k \in DOMAIN fields THEN fields[k] ELSE doc[k]]

\* Store.SaveData when the driver call succeeds: an upsert on the unique key when
\* the data has a value for it, else a plain insert.
SaveData(coll, uniqueKey, data) ==
    IF uniqueKey # "" /\ uniqueKey \in DOMAIN data /\ ~IsEmptyValue(data[uniqueKey])
      THEN LET filter == [k \in {uniqueKey} |-> data[uniqueKey]]
               updateData == [k \in DOMAIN data \ {"_id", uniqueKey} |-> data[k]]
               hits == {i \in DOMAIN coll : Matches(coll[i], filter)}
           IN IF DOMAIN updateData = {} THEN coll
              ELSE IF hits = {} THEN Append(coll, SetFields(filter, updateData))
              ELSE LET first == CHOOSE i \in hits : \A j \in hits : i <= j
                   IN [coll EXCEPT ![first] = SetFields(@, updateData)]
      ELSE Append(coll, data)

\* Store.FindData
FindData(coll, filter) == SelectSeq(coll, LAMBDA doc : Matches(doc, filter))

\* (mutant) DeleteMany without the check of the filter
DeleteData_AnyFilter(coll, filter) ==
    [db |-> SelectSeq(coll, LAMBDA doc : ~Matches(doc, filter)),
     deletedCount |-> Len(SelectSeq(coll, LAMBDA doc : Matches(doc, filter))),
     err |-> ""]

\* Store.DeleteData: an empty filter is refused with ErrDeleteFailed, else
\* DeleteMany; the collection left, the count and the error.
DeleteData(coll, filter) ==
    IF DOMAIN filter = {}
      THEN [db |-> coll, deletedCount |-> 0, err |-> "ErrDeleteFailed"]
      ELSE [db |-> SelectSeq(coll, LAMBDA doc : ~Matches(doc, filter)),
            deletedCount |-> Len(SelectSeq(coll, LAMBDA doc : Matches(doc, filter))),
            err |-> ""]

\* ------------------------------------------------- dispatcher: the request
\* An incoming request: method, path, query arguments and JSON body (a flat
\* object of scalars here; <<>> when there is none).
Input(method, path, query, body) ==
    [method |-> method, path |-> path, query |-> query, body |-> body]

NoInput == Input("", <<>>, <<>>, <<>>)

\* c.AllParams() as a map
ParamsMap(path) ==
    [k \in {p[1] : p \in AllParams(path)} |->
        Str((CHOOSE p \in AllParams(path) : p[1] = k)[2])]

\* (mutant) the body's fields first, then the query arguments
MergeRequest_BodyFirst(in) ==
    LET pp == ParamsMap(in.path)
        b == IF in.method \in {"POST", "PUT", "PATCH"} THEN in.body ELSE <<>>
    IN [k \in DOMAIN pp \cup DOMAIN in.query \cup DOMAIN b |->
           IF k \in DOMAIN pp THEN pp[k]
           ELSE IF k \in DOMAIN b THEN b[k] ELSE Str(in.query[k])]

\* reqData: path parameters first, then query arguments, then (POST, PUT, PATCH)
\* the body's fields, each only for keys not yet present.
MergeRequest(in) ==
    LET pp == ParamsMap(in.path)
        q == [k \in DOMAIN pp \cup DOMAIN in.query |->
                 IF k \in DOMAIN pp THEN pp[k] ELSE Str(in.query[k])]
    IN IF in.method \in {"POST", "PUT", "PATCH"}
         THEN [k \in DOMAIN q \cup DOMAIN in.body |->
                  IF k \in DOMAIN q THEN q[k] ELSE in.body[k]]
         ELSE q

\* (mutant) only an absent key counts as missing
MissingRequired_AbsentOnly(parameters, reqData) ==
    {i \in DOMAIN parameters :
        parameters[i].required /\ parameters[i].name \notin DOMAIN reqData}

\* The required parameters (in declaration order) that are missing or empty.
MissingRequired(parameters, reqData) ==
    {i \in DOMAIN parameters :
        /\ parameters[i].required
        /\ \/ parameters[i].name \notin DOMAIN reqData
           \/ IsEmptyValue(reqData[parameters[i].name])}

\* convertArrayToMap: nil and everything that is not a []interface{} or a
\* []map[string]interface{} comes back as it is; the values of this model
\* include neither of the two.
convertArrayToMap(data) == IF data = Nil THEN Nil ELSE data

\* The status code a successful response map asks for.
StatusCodeOf(h, response) ==
    LET has(m) == "statusCode" \in DOMAIN m /\ m["statusCode"].t = "num"
        opd == IF IsFiberMap(response) THEN Get(h, response.a, "opdResult") ELSE Nil
        top == CASE IsFiberMap(response) -> h[response.a].m
                 [] response.t = "bsonD" -> response.m
                 [] OTHER -> <<>>
    IN IF has(top) THEN top["statusCode"].n
       ELSE IF IsPlainMap(opd) /\ has(h[opd.a].m) THEN h[opd.a].m["statusCode"].n
       ELSE 200

\* Step 7 of the handler: the status and JSON body sent, and the heap after it.
FinalResponse(h, owner, response, processingError, status) ==
    IF processingError # ""
      THEN [h |-> h,
            status |-> IF status = 200 THEN 500 ELSE status,
            body |-> IF IsFiberMap(response) /\ Get(h, response.a, "error") # Nil
                       THEN ToJSON(h, response)
                       ELSE [t |-> "object", m |-> [error |-> Str(processingError)]]]
    ELSE
      LET h0 == IF response = Nil THEN Alloc(h, owner, [success |-> Bool(TRUE)]) ELSE h
          r0 == IF response = Nil THEN FiberMap(Len(h) + 1) ELSE response
          r1 == IF IsPlainMap(r0) THEN FiberMap(r0.a) ELSE r0
          code == StatusCodeOf(h0, r0)
      IN CASE r1.t = "bsonD" ->
                [h |-> h0, status |-> code,
                 body |-> [t |-> "object", m |-> [k \in DOMAIN r1.m |-> ToJSON(h0, r1.m[k])]]]
           [] IsFiberMap(r1) /\ Has(h0, r1.a, "data") ->
                LET data == h0[r1.a].m["data"]
                    h1 == IF data.t = "bsonD" THEN Alloc(h0, owner, data.m) ELSE h0
                    converted == IF data.t = "bsonD" THEN BsonM(Len(h0) + 1)
                                 ELSE convertArrayToMap(data)
                    h2 == MapStore(h1, r1.a, "data", converted)
                IN [h |-> h2, status |-> code, body |-> ToJSON(h2, converted)]
           [] OTHER -> [h |-> h0, status |-> code, body |-> ToJSON(h0, r1)]

\* ------------------------------------------- the registered definitions
\* The definitions below were registered through CreateAPI, whose BodyParser
\* decodes every JSON object of the payload into a map[string]interface{}: these
\* maps are the initial heap, owned by no request (owner 0).
TemplateRet == 1    \* returnData of "ret": {"id": "$id", "tag": {"label": "t"}}
TemplateTag == 2    \* the nested object {"label": "t"}
SetValueCfg == 3    \* value of the set transformation of "call": {"k": "v"}
LiteralOpt == 4     \* literal parameter `opt` of the apiCall of "call": {"deep": "d"}
TemplateOut == 5    \* returnData of "call2": {"out": "$res"}
TemplateWrap == 6   \* returnData of "wrap": {"data": "$id", "meta": "m"}
TemplateCode == 7   \* returnData of "code": {"statusCode": 404, "msg": "none"}
TemplateOpd == 8    \* returnData of "opd": {"opdResult": {"statusCode": 201}}
TemplateOpdResult == 9  \* the nested object {"statusCode": 201}
TemplateUser == 10  \* returnData of "a": {"user": "$out.user"}
TemplateB == 11     \* returnData of "b": {"id": "$uid", "label": "u"}

DefinitionHeap ==
    << [owner |-> 0, m |-> [id |-> Var(<<"id">>), tag |-> MapRef(TemplateTag)]],
       [owner |-> 0, m |-> [label |-> Str("t")]],
       [owner |-> 0, m |-> [k |-> Str("v")]],
       [owner |-> 0, m |-> [deep |-> Str("d")]],
       [owner |-> 0, m |-> [out |-> Var(<<"res">>)]],
       [owner |-> 0, m |-> [data |-> Var(<<"id">>), meta |-> Str("m")]],
       [owner |-> 0, m |-> [statusCode |-> Num(404), msg |-> Str("none")]],
       [owner |-> 0, m |-> [opdResult |-> MapRef(TemplateOpdResult)]],
       [owner |-> 0, m |-> [statusCode |-> Num(201)]],
       [owner |-> 0, m |-> [user |-> Var(<<"out", "user">>)]],
       [owner |-> 0, m |-> [id |-> Var(<<"uid">>), label |-> Str("u")]] >>

ModeIsX == Cond(<<"mode">>, "eq", Str("x"))
KindIsK == Cond(<<"kind">>, "eq", Str("k"))

\* return on both branches, saving; the Else branch has no returnData
FlowRet ==
    Block(<<ModeIsX>>,
          Action("return", <<Set("status", Str("ok"))>>, MapRef(TemplateRet), TRUE,
                 NilBlock, NilApiCall),
          Action("return", <<>>, Nil, TRUE, NilBlock, NilApiCall))

\* continue, saving the transformed data
FlowCont ==
    Block(<<>>,
          Action("continue", <<Set("owner", Var(<<"id">>)), RemoveField("mode")>>, Nil,
                 TRUE, NilBlock, NilApiCall),
          NilAction)

\* conditionalBlock with saveData: with a nested flow (whose actions save or
\* not) on Then, without one on Else
FlowBlk ==
    Block(<<ModeIsX>>,
          Action("conditionalBlock", <<Set("stage", Str("outer"))>>, Nil, TRUE,
                 Block(<<KindIsK>>,
                       Action("return", <<>>, Str("done"), FALSE, NilBlock, NilApiCall),
                       Action("continue", <<Set("stage", Str("inner"))>>, Nil, TRUE,
                              NilBlock, NilApiCall)),
                 NilApiCall),
          Action("conditionalBlock", <<>>, Nil, TRUE, NilBlock, NilApiCall))

\* apiCall with saveData: a call of "tgt" storing under cfg.r on Then, a call
\* without configuration on Else
FlowCall ==
    Block(<<ModeIsX>>,
          Action("apiCall", <<Set("cfg", MapRef(SetValueCfg))>>, Nil, TRUE, NilBlock,
                 ApiCall("tgt", [id |-> Var(<<"id">>), opt |-> MapRef(LiteralOpt)],
                         <<"cfg", "r">>)),
          Action("apiCall", <<>>, Nil, TRUE, NilBlock, NilApiCall))

\* apiCall with saveData and a returnData object
FlowCall2 ==
    Block(<<>>,
          Action("apiCall", <<>>, MapRef(TemplateOut), TRUE, NilBlock,
                 ApiCall("leaf", [id |-> Var(<<"id">>)], <<"res">>)),
          NilAction)

\* the target of "call": itself calls "leaf" and stores under opt.seen
FlowTgt ==
    Block(<<>>,
          Action("apiCall", <<>>, Nil, FALSE, NilBlock,
                 ApiCall("leaf", <<>>, <<"opt", "seen">>)),
          NilAction)

\* "vault": marks its data and asks for a save
FlowVault ==
    Block(<<>>,
          Action("continue", <<Set("stage", Str("vault"))>>, Nil, TRUE, NilBlock, NilApiCall),
          NilAction)

\* a call of "vault" storing under r, with or without saveData
FlowThrough(save) ==
    Block(<<>>,
          Action("apiCall", <<>>, Nil, save, NilBlock,
                 ApiCall("vault", [id |-> Var(<<"id">>)], <<"r">>)),
          NilAction)

\* return of a template, without conditions, transformations or save
FlowReturn(template) ==
    Block(<<>>, Action("return", <<>>, MapRef(template), FALSE, NilBlock, NilApiCall),
          NilAction)

\* apiCall of "b" with the request's uid, the result stored under out.user and
\* sent back through the returnData object
FlowA ==
    Block(<<>>,
          Action("apiCall", <<>>, MapRef(TemplateUser), FALSE, NilBlock,
                 ApiCall("b", [uid |-> Var(<<"uid">>)], <<"out", "user">>)),
          NilAction)

\* flows that end in an error, every action asking for a save: an action of an
\* unknown type, a call of a name no definition has, a nested block around the
\* unknown type, a call of the definition with the unknown type
FlowBad ==
    Block(<<>>, Action("notify", <<>>, Nil, TRUE, NilBlock, NilApiCall), NilAction)

FlowLost ==
    Block(<<>>, Action("apiCall", <<>>, Nil, TRUE, NilBlock, ApiCall("zz", <<>>, <<"r">>)),
          NilAction)

FlowNest ==
    Block(<<>>, Action("conditionalBlock", <<>>, Nil, TRUE, FlowBad, NilApiCall), NilAction)

FlowVia ==
    Block(<<>>, Action("apiCall", <<>>, Nil, TRUE, NilBlock, ApiCall("bad", <<>>, <<"r">>)),
          NilAction)

\* return of a text; a call of `target` with the result stored under r
FlowText(s) ==
    Block(<<>>, Action("return", <<>>, Str(s), FALSE, NilBlock, NilApiCall), NilAction)

FlowFetch(target) ==
    Block(<<>>, Action("apiCall", <<>>, Nil, FALSE, NilBlock, ApiCall(target, <<>>, <<"r">>)),
          NilAction)

Definition(id, name, method, segment, parameters, flow, uniqueKey) ==
    [id |-> id, name |-> name, method |-> method, endpoint |-> <<Lit(segment)>>,
     database |-> "app", collection |-> "users",
     body |-> [parameters |-> parameters, conditionalFlow |-> flow,
               uniqueKey |-> uniqueKey]]

RequiredId == <<[name |-> "id", required |-> TRUE]>>

Definitions ==
    { Definition(1, "ret", "POST", "ret", RequiredId, FlowRet, "id"),
      Definition(2, "cont", "POST", "cont", <<>>, FlowCont, ""),
      Definition(3, "blk", "POST", "blk", <<>>, FlowBlk, ""),
      Definition(4, "call", "POST", "call", <<>>, FlowCall, ""),
      Definition(5, "call2", "POST", "call2", <<>>, FlowCall2, ""),
      Definition(6, "tgt", "POST", "tgt", <<>>, FlowTgt, ""),
      Definition(7, "leaf", "POST", "leaf", <<>>, NilBlock, ""),
      Definition(8, "find", "GET", "leaf", <<>>, NilBlock, ""),
      Definition(9, "put", "PUT", "leaf", <<>>, NilBlock, "id"),
      Definition(10, "del", "DELETE", "leaf", <<>>, NilBlock, ""),
      Definition(11, "patch", "PATCH", "leaf", <<>>, NilBlock, ""),
      Definition(12, "wrap", "POST", "wrap", <<>>, FlowReturn(TemplateWrap), ""),
      Definition(13, "code", "POST", "code", <<>>, FlowReturn(TemplateCode), ""),
      Definition(14, "opd", "POST", "opd", <<>>, FlowReturn(TemplateOpd), ""),
      Definition(15, "a", "GET", "a", <<>>, FlowA, ""),
      Definition(16, "b", "GET", "b", <<>>, FlowReturn(TemplateB), ""),
      Definition(17, "bad", "POST", "bad", <<>>, FlowBad, ""),
      Definition(18, "lost", "POST", "lost", <<>>, FlowLost, ""),
      Definition(19, "nest", "POST", "nest", <<>>, FlowNest, ""),
      Definition(20, "via", "POST", "via", <<>>, FlowVia, ""),
      Definition(21, "old", "POST", "old", <<>>, FlowText("stale"), ""),
      Definition(22, "seek", "POST", "seek", <<>>, FlowFetch("hid"), ""),
      Definition(23, "renew", "POST", "renew", <<>>, FlowFetch("old"), ""),
      [Definition(25, "vault", "POST", "vault", <<>>, FlowVault, "name")
          EXCEPT !.database = "shop", !.collection = "orders"],
      Definition(26, "thru", "POST", "thru", <<>>, FlowThrough(FALSE), "id"),
      Definition(27, "keep", "POST", "keep", <<>>, FlowThrough(TRUE), "id") }

\* The definition store next to that route table.  The handlers write the store
\* and the table in separate steps, so the two can differ: "old" was updated in
\* the store and the table still holds its former flow; "hid" was inserted and
\* has no entry in the table.
StoredDefinitions ==
    {d \in Definitions : d.name # "old"}
        \cup { Definition(21, "old", "POST", "old", <<>>, FlowText("new"), ""),
               Definition(24, "hid", "POST", "hid", <<>>, FlowText("hidden"), "") }

\* What InsertOne writes and a later FindOne decodes: every object of the flow
\* comes back as a primitive.D.
RECURSIVE BlockToBSON(_, _), ActionToBSON(_, _)
BlockToBSON(h, b) ==
    IF b.t = "nilBlock" THEN b
    ELSE Block([i \in DOMAIN b.conditions |->
                   Cond(b.conditions[i].field, b.conditions[i].operator,
                        ToBSON(h, b.conditions[i].value))],
               ActionToBSON(h, b.then), ActionToBSON(h, b.else))

ActionToBSON(h, a) ==
    IF a.t = "nilAction" THEN a
    ELSE Action(a.type,
                [i \in DOMAIN a.transform |->
                    [a.transform[i] EXCEPT !.value = ToBSON(h, @)]],
                ToBSON(h, a.returnData), a.saveData,
                BlockToBSON(h, a.conditionalFlow),
                IF a.apiCall.t = "nilApiCall" THEN a.apiCall
                ELSE ApiCall(a.apiCall.apiName,
                             [k \in DOMAIN a.apiCall.parameters |->
                                 ToBSON(h, a.apiCall.parameters[k])],
                             a.apiCall.resultField))

Stored(h, d) == [d EXCEPT !.body.conditionalFlow = BlockToBSON(h, @)]

\* The requests sent to the dynamic endpoints.
IdOne == [id |-> Str("1")]
DynInputs ==
    { Input("POST", <<Lit("ret")>>, <<>>, [id |-> Str("1"), mode |-> Str("x")]),
      Input("POST", <<Lit("ret")>>, <<>>, IdOne),
      Input("POST", <<Lit("ret")>>, <<>>, [mode |-> Str("x")]),
      Input("POST", <<Lit("ret")>>, <<>>, [id |-> Nil, mode |-> Str("x")]),
      Input("POST", <<Lit("ret")>>, <<>>, [id |-> Str("")]),
      Input("POST", <<Lit("cont")>>, <<>>, [id |-> Str("1"), mode |-> Str("x")]),
      Input("POST", <<Lit("blk")>>, <<>>, [mode |-> Str("x"), kind |-> Str("k")]),
      Input("POST", <<Lit("blk")>>, <<>>, [mode |-> Str("x")]),
      Input("POST", <<Lit("blk")>>, <<>>, IdOne),
      Input("POST", <<Lit("call")>>, <<>>, [id |-> Str("1"), mode |-> Str("x")]),
      Input("POST", <<Lit("call")>>, <<>>, IdOne),
      Input("POST", <<Lit("call2")>>, <<>>, IdOne),
      Input("POST", <<Lit("leaf")>>, [id |-> "2"], IdOne),
      Input("GET", <<Lit("leaf")>>, [id |-> "2"], <<>>),
      Input("PUT", <<Lit("leaf")>>, [id |-> "2"], [id |-> Str("1"), mode |-> Str("x")]),
      Input("DELETE", <<Lit("leaf")>>, [id |-> "2"], <<>>),
      Input("DELETE", <<Lit("leaf")>>, <<>>, IdOne),
      Input("PATCH", <<Lit("leaf")>>, [id |-> "2"], IdOne),
      Input("POST", <<Lit("wrap")>>, <<>>, IdOne),
      Input("POST", <<Lit("code")>>, <<>>, IdOne),
      Input("POST", <<Lit("opd")>>, <<>>, IdOne),
      Input("GET", <<Lit("a")>>, [uid |-> "7"], <<>>),
      Input("POST", <<Lit("bad")>>, <<>>, IdOne),
      Input("POST", <<Lit("lost")>>, <<>>, IdOne),
      Input("POST", <<Lit("nest")>>, <<>>, IdOne),
      Input("POST", <<Lit("via")>>, <<>>, IdOne),
      Input("POST", <<Lit("old")>>, <<>>, IdOne),
      Input("POST", <<Lit("seek")>>, <<>>, IdOne),
      Input("POST", <<Lit("renew")>>, <<>>, IdOne),
      Input("POST", <<Lit("hid")>>, <<>>, IdOne),
      Input("POST", <<Lit("vault")>>, <<>>, IdOne),
      Input("POST", <<Lit("thru")>>, <<>>, IdOne),
      Input("POST", <<Lit("keep")>>, <<>>, IdOne),
      Input("POST", <<Lit("nope")>>, <<>>, <<>>) }

\* ------------------------------------------- dispatcher: steps 1 to 5
\* The calls of Store.SaveData a request has made: whether any, the arguments
\* of the last (database, collection, unique key, data), and how many.
NoSave ==
    [called |-> FALSE, database |-> "", collection |-> "", uniqueKey |-> "", data |-> <<>>,
     n |-> 0]

DynIdle ==
    [pc |-> "idle", rid |-> 0, input |-> NoInput, api |-> NoDoc, reqData |-> 0,
     flowRan |-> FALSE, defaultWrite |-> FALSE, response |-> Nil, dataForSaving |-> 0,
     status |-> 0, body |-> Nil, issued |-> NoSave, saveFailed |-> FALSE,
     cancelled |-> FALSE, storeCalls |-> {}]

\* The handler has answered.
Answered(d, status, body) == [d EXCEPT !.pc = "done", !.status = status, !.body = body]

ErrorBody(message) == [t |-> "object", m |-> [error |-> Str(message)]]

\* (mutant) every verb is handled like POST
DefaultLogic_AlwaysSave(h, owner, coll, method, currentDataState, cancelled) ==
    [h |-> h, db |-> coll, response |-> MapRef(currentDataState), saveData |-> TRUE,
     dataForSaving |-> currentDataState, err |-> "", status |-> 200, storeCalls |-> {}]

\* Step 5 for a definition without a flow: the default logic of the verb.
\* Result: heap, collection, response, saveData, dataForSaving, error, status,
\* and the calls made to the store of dynamic data (FindData, DeleteData).
\* FindData and DeleteData run under the request context ctx and return its
\* error once it is cancelled or past its deadline.
DefaultLogic(h, owner, coll, method, currentDataState, cancelled) ==
    LET filter == ToBSON(h, MapRef(currentDataState)).m
        out(h1, c1, response, save, data, err, status, storeCalls) ==
            [h |-> h1, db |-> c1, response |-> response, saveData |-> save,
             dataForSaving |-> data, err |-> err, status |-> status,
             storeCalls |-> storeCalls]
    IN CASE method = "GET" /\ cancelled ->
              out(Alloc(h, owner, [error |-> Str("failed to retrieve data")]),
                  coll, FiberMap(Len(h) + 1), FALSE, 0, "failed to retrieve data", 500,
                  {"find"})
         [] method = "GET" /\ ~cancelled ->
              out(h, coll, Results(FindData(coll, filter)), FALSE, 0, "", 200, {"find"})
         [] method = "DELETE" /\ DOMAIN filter # {} /\ cancelled ->
              out(Alloc(h, owner, [error |-> Str("failed to delete data")]),
                  coll, FiberMap(Len(h) + 1), FALSE, 0, "failed to delete data", 500,
                  {"delete"})
         [] method \in {"POST", "PUT"} ->
              out(h, coll, MapRef(currentDataState), TRUE, currentDataState, "", 200, {})
         [] method = "DELETE" /\ ~(DOMAIN filter # {} /\ cancelled) ->
              IF DOMAIN filter = {}
                THEN out(Alloc(h, owner, [error |-> Str("DELETE requires parameters")]),
                         coll, FiberMap(Len(h) + 1), FALSE, 0,
                         "DELETE requires parameters", 400, {})
                ELSE out(Alloc(h, owner,
                               [success |-> Bool(TRUE),
                                deletedCount |-> Num(DeleteData(coll, filter).deletedCount)]),
                         DeleteData(coll, filter).db, FiberMap(Len(h) + 1), FALSE, 0, "", 200,
                         {"delete"})
         [] OTHER ->
              out(Alloc(h, owner, [success |-> Bool(TRUE), message |-> Str("Method received")]),
                  coll, FiberMap(Len(h) + 1), FALSE, 0, "", 200, {})

\* Step 5 for a definition with a flow: what the handler makes of the result r
\* of ProcessConditionalFlow.
FlowOutcome(r, owner, coll) ==
    IF r.err # ""
      THEN [h |-> Alloc(r.h, owner, [error |-> Str("failed to process request logic")]),
            db |-> coll, response |-> FiberMap(Len(r.h) + 1), saveData |-> FALSE,
            dataForSaving |-> 0, err |-> "failed to process request logic",
            status |-> 500, storeCalls |-> {}]
      ELSE [h |-> r.h, db |-> coll, response |-> r.resp, saveData |-> r.save,
            dataForSaving |-> IF r.save THEN r.final ELSE 0, err |-> "", status |-> 200,
            storeCalls |-> {}]

FlowLogic(h, owner, st, coll, flow, currentDataState) ==
    FlowOutcome(ProcessConditionalFlow(h, owner, st, flow, currentDataState), owner, coll)

\* (mutant) a target is looked up among the entries of the route table
StoreUnder_RouteTable(st, cancelled) ==
    {Stored(DefinitionHeap, dynamicRoutes[k]) : k \in DOMAIN dynamicRoutes}

\* The definitions a FindOne under the request context can return: none once
\* the context is cancelled (the driver returns the context's error, which the
\* interpreter treats like any other lookup error).
StoreUnder(st, cancelled) == IF cancelled THEN {} ELSE st

\* A dynamic request arrives.
DynStart(w) ==
    /\ dyn[w].pc = "idle"
    /\ nStarted < MaxDynamic
    /\ \E in \in DynInputs :
          dyn' = [dyn EXCEPT ![w] = [DynIdle EXCEPT !.pc = "dispatch",
                                        !.rid = nStarted + 1, !.input = in]]
    /\ nStarted' = nStarted + 1
    /\ UNCHANGED <<auxVars, store, uniqueIndexes, dynamicRoutes, nextId, req, overlap, heap, db>>

\* After step 5 with outcome r: on to the save when one is due, else step 7.
AfterLogic(w, h1, api, reqData, r) ==
    LET hasFlow == api.body.conditionalFlow.t # "nilBlock"
        d1 == [dyn[w] EXCEPT !.api = api, !.reqData = reqData,
                             !.flowRan = hasFlow /\ r.err = "",
                             !.defaultWrite = ~hasFlow /\ r.saveData,
                             !.response = r.response,
                             !.dataForSaving = r.dataForSaving,
                             !.status = r.status,
                             !.storeCalls = r.storeCalls]
    IN IF r.saveData /\ r.err = ""
         THEN /\ dyn' = [dyn EXCEPT ![w] = [d1 EXCEPT !.pc = "save"]]
              /\ heap' = r.h
              /\ db' = r.db
         ELSE LET f == FinalResponse(r.h, dyn[w].rid, r.response, r.err, r.status)
              IN /\ dyn' = [dyn EXCEPT ![w] = Answered(d1, f.status, f.body)]
                 /\ heap' = f.h
                 /\ db' = r.db

\* DynamicAPIHandler from the cache lookup to the end of the processing logic:
\* the request data, the required parameters, the target check, then the flow
\* or the default logic; without a save to make, the response follows at once.
Dispatch(w) ==
    /\ dyn[w].pc = "dispatch"
    /\ LET d == dyn[w]
           in == d.input
           key == RouteKey(in.method, in.path)
       IN IF key \notin DOMAIN dynamicRoutes
            THEN /\ dyn' = [dyn EXCEPT ![w] = Answered(d, 404, ErrorBody("Not Found"))]
                 /\ UNCHANGED <<heap, db>>
          ELSE
            LET api == dynamicRoutes[key]
                content == MergeRequest(in)
                reqData == Len(heap) + 1
                h1 == Alloc(heap, d.rid, content)
                missing == MissingRequired(api.body.parameters, content)
            IN IF missing # {}
                 THEN /\ dyn' = [dyn EXCEPT ![w] =
                            Answered([d EXCEPT !.api = api, !.reqData = reqData], 400,
                                     ErrorBody("Missing or empty required parameter"))]
                      /\ heap' = h1
                      /\ db' = db
               ELSE IF api.database = "" \/ api.collection = ""
                 THEN /\ dyn' = [dyn EXCEPT ![w] =
                            Answered([d EXCEPT !.api = api, !.reqData = reqData], 500,
                                     ErrorBody("API configuration error"))]
                      /\ heap' = h1
                      /\ db' = db
               ELSE
                 AfterLogic(w, h1, api, reqData,
                            IF api.body.conditionalFlow.t # "nilBlock"
                              THEN FlowLogic(Alloc(h1, d.rid, content), d.rid,
                                             StoreUnder(store, d.cancelled), db,
                                             api.body.conditionalFlow, Len(h1) + 1)
                              ELSE DefaultLogic(Alloc(h1, d.rid, content), d.rid, db,
                                                in.method, Len(h1) + 1, d.cancelled))
    /\ UNCHANGED <<auxVars, store, uniqueIndexes, dynamicRoutes, nextId, req, overlap, nStarted>>

\* ---------------------------------------------- dispatcher: steps 6 and 7
\* The error handler of the application answers an error that is not a
\* *fiber.Error, such as a recovered panic, with 500 and a fixed message.
ErrorHandler(d) == Answered(d, 500, ErrorBody("An unexpected error occurred"))

\* `response == nil || response.(fiber.Map)["error"] == nil` after a failed
\* save: the single-value assertion panics on a response that is not a fiber.Map.
SaveFailureKeepsResponse(h, response) ==
    IF response = Nil THEN "replace"
    ELSE IF ~IsFiberMap(response) THEN "panic"
    ELSE IF Get(h, response.a, "error") = Nil THEN "replace" ELSE "keep"

\* Step 6, reached with saveData set and no processing error, and step 7.  The
\* save runs under its own context.Background() deadline; the driver call
\* succeeds or fails.
Save(w) ==
    /\ dyn[w].pc = "save"
    /\ LET d == dyn[w]
           saveFailure == "failed to save data to database"
       IN IF d.dataForSaving = 0
            THEN /\ dyn' = [dyn EXCEPT ![w] =
                       Answered(d, 500, ErrorBody("internal error: data marked for saving is missing"))]
                 /\ UNCHANGED <<heap, db>>
          ELSE
            \E ok \in BOOLEAN :
              LET data == ToBSON(heap, MapRef(d.dataForSaving)).m
                  d1 == [d EXCEPT !.issued = [called |-> TRUE, database |-> d.api.database,
                                              collection |-> d.api.collection,
                                              uniqueKey |-> d.api.body.uniqueKey,
                                              data |-> data, n |-> d.issued.n + 1],
                                  !.saveFailed = ~ok]
              IN IF ok
                   THEN LET confirm == /\ IsFiberMap(d.response)
                                       /\ Get(heap, d.response.a, "message") = Nil
                                       /\ Get(heap, d.response.a, "data") = Nil
                            h1 == IF confirm
                                    THEN MapStore(heap, d.response.a, "message",
                                                  Str("Data processed and saved successfully"))
                                    ELSE heap
                            f == FinalResponse(h1, d.rid, d.response, "", d.status)
                        IN /\ db' = IF d.api.collection = "users"
                                       THEN SaveData(db, d.api.body.uniqueKey, data)
                                       ELSE db
                           /\ heap' = f.h
                           /\ dyn' = [dyn EXCEPT ![w] = Answered(d1, f.status, f.body)]
                   ELSE LET outcome == SaveFailureKeepsResponse(heap, d.response)
                            f == FinalResponse(heap, d.rid,
                                               IF outcome = "replace" THEN Nil ELSE d.response,
                                               saveFailure,
                                               IF outcome = "replace" THEN 500 ELSE d.status)
                        IN /\ db' = db
                           /\ heap' = heap
                           /\ dyn' = [dyn EXCEPT ![w] =
                                 IF outcome = "panic" THEN ErrorHandler(d1)
                                 ELSE Answered(d1, f.status, f.body)]
    /\ UNCHANGED <<auxVars, store, uniqueIndexes, dynamicRoutes, nextId, req, overlap, nStarted>>

\* The request context is cancelled, or its 20 s deadline passes, while the
\* handler is still at work.
Cancel(w) ==
    /\ dyn[w].pc \in {"dispatch", "save"}
    /\ ~dyn[w].cancelled
    /\ dyn' = [dyn EXCEPT ![w].cancelled = TRUE]
    /\ UNCHANGED <<auxVars, store, uniqueIndexes, dynamicRoutes, nextId, req, overlap, nStarted,
                   heap, db>>

\* The response has been sent; the worker is free again.
DynRespond(w) ==
    /\ dyn[w].pc = "done"
    /\ dyn' = [dyn EXCEPT ![w] = DynIdle]
    /\ UNCHANGED <<auxVars, store, uniqueIndexes, dynamicRoutes, nextId, req, overlap, nStarted,
                   heap, db>>

\* ------------------------------------- the interpreter, one Go call at a time
\* ProcessConditionalFlow calls processAction, which calls ProcessConditionalFlow
\* again for a conditionalBlock with a nested flow and for an apiCall on the flow
\* of its target.  Each such invocation is a frame of the goroutine's stack; the
\* frames below the top one wait for their callee.  What a frame does after its
\* callee returned (storing the result, applying the transformations again)
\* makes no further call and is part of its return.

\* Frames one invocation may stack up before the exploration stops following it.
MaxDepth == 8

NoCalls == [stack |-> <<>>, phase |-> "idle"]


Frame(flow, data) == [flow |-> flow, data |-> data, waiting |-> FALSE]

NoEntry == [enters |-> FALSE, h |-> <<>>, flow |-> NilBlock, data |-> 0]

\* The invocation processAction makes for `action` on the transformed data t.a.
EntryOf(t, st, action) ==
    CASE /\ action.type = "conditionalBlock"
         /\ action.conditionalFlow.t # "nilBlock" ->
           [enters |-> TRUE, h |-> t.h, flow |-> action.conditionalFlow, data |-> t.a]
      [] /\ action.type = "apiCall"
         /\ action.apiCall.t # "nilApiCall"
         /\ ByName(st, action.apiCall.apiName) # {}
         /\ \A k \in DOMAIN action.apiCall.parameters :
                action.apiCall.parameters[k] # Nil ->
           [enters |-> TRUE,
            h |-> Alloc(t.h, 0, CallParams(t.h, action.apiCall.parameters, t.a)),
            flow |-> (CHOOSE d \in ByName(st, action.apiCall.apiName) : TRUE).body.conditionalFlow,
            data |-> Len(t.h) + 1]
      [] OTHER -> NoEntry

\* The invocation frame f makes, if any: the block selects Then or Else, the
\* transformations of the selected action are applied, then its type decides.
Entry(h, st, f) ==
    IF f.flow.t = "nilBlock" THEN NoEntry
    ELSE IF evaluateConditions(h, f.flow.conditions, f.data)
      THEN IF f.flow.then.t = "nilAction" THEN NoEntry
           ELSE EntryOf(ApplyTransformations(h, 0, f.flow.then.transform, f.data),
                        st, f.flow.then)
      ELSE IF f.flow.else.t = "nilAction" THEN NoEntry
           ELSE EntryOf(ApplyTransformations(h, 0, f.flow.else.transform, f.data),
                        st, f.flow.else)

\* Flows of the definitions of a registry: returning at once, calling another
\* definition by name (registered or not), calling only when id = "1", and
\* calling from a nested block.
FlowReturning ==
    Block(<<>>, Action("return", <<>>, Str("ok"), FALSE, NilBlock, NilApiCall), NilAction)

FlowCalling(target) ==
    Block(<<>>, Action("apiCall", <<>>, Nil, FALSE, NilBlock,
                       ApiCall(target, <<>>, <<"r">>)),
          NilAction)

FlowCallingIfId(target) ==
    Block(<<Cond(<<"id">>, "eq", Str("1"))>>,
          Action("apiCall", <<>>, Nil, FALSE, NilBlock, ApiCall(target, <<>>, <<"r">>)),
          Action("continue", <<>>, Nil, FALSE, NilBlock, NilApiCall))

FlowNestedCalling(target) ==
    Block(<<>>, Action("conditionalBlock", <<>>, Nil, FALSE, FlowCalling(target), NilApiCall),
          NilAction)

CallFlows ==
    {FlowReturning, FlowNestedCalling("a")}
        \cup {FlowCalling(t) : t \in {"a", "b", "c", "zz"}}
        \cup {FlowCallingIfId(t) : t \in {"a", "b"}}

\* Every way three definitions a, b, c can be registered with these flows.
Registries ==
    { { Stored(<<>>, Definition(1, "a", "POST", "a", <<>>, t[1], "")),
        Stored(<<>>, Definition(2, "b", "POST", "b", <<>>, t[2], "")),
        Stored(<<>>, Definition(3, "c", "POST", "c", <<>>, t[3], "")) }
      : t \in CallFlows \X CallFlows \X CallFlows }

CallData == {<<>>, [id |-> Str("1")]}

\* The dispatcher invokes the interpreter on the flow of a definition.
Invoke ==
    /\ calls.phase = "idle"
    /\ \E d \in store, data \in CallData :
          /\ heap' = Alloc(heap, 1, data)
          /\ calls' = [stack |-> <<Frame(d.body.conditionalFlow, Len(heap) + 1)>>,
                       phase |-> "running"]
    /\ UNCHANGED <<crudVars, db, dyn, pure>>

\* The top frame makes its nested invocation.
Enter ==
    /\ calls.phase = "running"
    /\ Len(calls.stack) < MaxDepth
    /\ ~calls.stack[Len(calls.stack)].waiting
    /\ Entry(heap, store, calls.stack[Len(calls.stack)]).enters
    /\ heap' = Entry(heap, store, calls.stack[Len(calls.stack)]).h
    /\ calls' = [calls EXCEPT
                   !.stack = Append([@ EXCEPT ![Len(@)].waiting = TRUE],
                                    Frame(Entry(heap, store, @[Len(@)]).flow,
                                          Entry(heap, store, @[Len(@)]).data))]
    /\ UNCHANGED <<crudVars, db, dyn, pure>>

\* The top frame returns: it makes no nested invocation, or its callee is back.
Return ==
    /\ calls.phase = "running"
    /\ \/ calls.stack[Len(calls.stack)].waiting
       \/ ~Entry(heap, store, calls.stack[Len(calls.stack)]).enters
    /\ calls' = [stack |-> SubSeq(calls.stack, 1, Len(calls.stack) - 1),
                 phase |-> IF Len(calls.stack) = 1 THEN "returned" ELSE "running"]
    /\ UNCHANGED <<crudVars, heap, db, dyn, pure>>

\* --------------------------------- the functions of the core package, alone
\* One call of a function on arguments drawn from the sets below; the maps the
\* arguments refer to are on the heap before the call.  `x` is the record of the
\* arguments besides the data map d.
NoPure == [fn |-> "none", x |-> Nil, d |-> 0, done |-> FALSE, out |-> Nil]

PureCall(fn, x, d) == [fn |-> fn, x |-> x, d |-> d, done |-> FALSE, out |-> Nil]

\* Addresses of the maps on the heap before the call.
DataAdmin == 1      \* {role: "admin", name: "Ada", n: 2, s: "7", word: "abc",
                    \*  user: {role: "admin", id: "7"}, tags: ["a", "b"], none: null}
DataAdminUser == 2  \* the nested object of DataAdmin
DataUser == 3       \* {role: "user", name: "Ada"}
DataEmpty == 4      \* {}
TemplateOk == 5     \* {ok: true, who: "$name"}
TemplateNo == 6     \* {ok: false}
TemplatePlain == 7  \* {k: "v", sub: {x: 1}, l: [1, {x: 1}]}
TemplateSub == 8    \* {x: 1}
TemplateDeep == 9   \* {u: "$user", r: "$user.role", deep: {ok: true, who: "$name"},
                    \*  l: ["$name", "z"], miss: "$nope"}
SetObject == 10     \* {k: "v"}, the object value of a set transformation
DataNumbers == 11   \* {price: 10, tax: 2, discount: 3, a: 5, b: 0, s: "7", word: "abc"}
\* the items of returnData arrays
PairWho == DataNumbers + 1     \* {Key: "who", Value: "$name"}
PairOk == DataNumbers + 2      \* {Key: "ok", Value: true}
PairLower == DataNumbers + 3   \* {key: "who", value: "$name"}
PairNoKey == DataNumbers + 4   \* {Key: 1, Value: "x"}

PureHeap ==
    << [owner |-> 0,
        m |-> [role |-> Str("admin"), name |-> Str("Ada"), n |-> Num(2), s |-> Str("7"),
               word |-> Str("abc"), user |-> MapRef(DataAdminUser),
               tags |-> List(<<Str("a"), Str("b")>>), none |-> Nil]],
       [owner |-> 0, m |-> [role |-> Str("admin"), id |-> Str("7")]],
       [owner |-> 0, m |-> [role |-> Str("user"), name |-> Str("Ada")]],
       [owner |-> 0, m |-> <<>>],
       [owner |-> 0, m |-> [ok |-> Bool(TRUE), who |-> Var(<<"name">>)]],
       [owner |-> 0, m |-> [ok |-> Bool(FALSE)]],
       [owner |-> 0, m |-> [k |-> Str("v"), sub |-> MapRef(TemplateSub),
                            l |-> List(<<Num(1), MapRef(TemplateSub)>>)]],
       [owner |-> 0, m |-> [x |-> Num(1)]],
       [owner |-> 0, m |-> [u |-> Var(<<"user">>), r |-> Var(<<"user", "role">>),
                            deep |-> MapRef(TemplateOk),
                            l |-> List(<<Var(<<"name">>), Str("z")>>),
                            miss |-> Var(<<"nope">>)]],
       [owner |-> 0, m |-> [k |-> Str("v")]],
       [owner |-> 0,
        m |-> [price |-> Num(10), tax |-> Num(2), discount |-> Num(3), a |-> Num(5),
               b |-> Num(0), s |-> Str("7"), word |-> Str("abc")]],
       [owner |-> 0, m |-> [Key |-> Str("who"), Value |-> Var(<<"name">>)]],
       [owner |-> 0, m |-> [Key |-> Str("ok"), Value |-> Bool(TRUE)]],
       [owner |-> 0, m |-> [key |-> Str("who"), value |-> Var(<<"name">>)]],
       [owner |-> 0, m |-> [Key |-> Num(1), Value |-> Str("x")]] >>

DataMaps == {DataAdmin, DataUser, DataEmpty}

\* Transformations of every operation, and one of an unknown operation.
Transformations ==
    { Set("role", Str("x")), Set("copy", Var(<<"user">>)), Set("cfg", MapRef(SetObject)),
      Set("m", Var(<<"nope">>)), Set("who", MapRef(TemplateOk)),
      Set("l", List(<<Var(<<"name">>), Str("x")>>)),
      RemoveField("name"), RemoveField("user"),
      AppendValue("name", Str("!")), AppendValue("name", Var(<<"n">>)),
      AppendValue("fresh", Var(<<"user", "id">>)), AppendValue("user", Str("x")),
      AppendValue("tags", Var(<<"nope">>)),
      Calculate("t", Formula("add", <<Var(<<"n">>), Num(10), NegVar(<<"s">>), Junk>>)),
      Calculate("t", Formula("multiply", <<Var(<<"n">>), Var(<<"s">>)>>)),
      Calculate("t", Formula("subtract", <<Num(10), Var(<<"n">>), Junk>>)),
      Calculate("t", Formula("divide", <<Var(<<"s">>), Var(<<"n">>)>>)),
      Calculate("n", Formula("divide", <<Num(10), Var(<<"n">>)>>)),
      Calculate("t", Formula("power", <<Var(<<"n">>)>>)),
      Calculate("t", Malformed),
      Transformation("upper", "name", Nil, NoFormula) }

\* Longest list of transformations of one call.
MaxTransformations == 2

RECURSIVE SeqsUpTo(_, _)
SeqsUpTo(S, n) ==
    IF n = 0 THEN {<<>>}
    ELSE SeqsUpTo(S, n - 1)
           \cup {Append(q, x) : q \in {r \in SeqsUpTo(S, n - 1) : Len(r) = n - 1}, x \in S}

\* A list with all four operations.
AllFour ==
    << Set("role", Str("x")), RemoveField("name"), AppendValue("role", Var(<<"n">>)),
       Calculate("t", Formula("sum", <<Var(<<"n">>), Var(<<"s">>)>>)) >>

\* Formulas calculate cannot evaluate, whatever the data: no `:`, an unknown
\* operation, subtract with one argument or without a numeric minuend, divide
\* with one or three arguments or with an argument that is no number.
FailingFormulas ==
    { Malformed, Formula("power", <<Var(<<"n">>)>>),
      Formula("subtract", <<Num(1)>>), Formula("subtract", <<Junk, Num(1)>>),
      Formula("subtract", <<Var(<<"word">>), Num(1)>>),
      Formula("divide", <<Num(1)>>), Formula("divide", <<Num(4), Num(2), Num(1)>>),
      Formula("divide", <<Num(1), Junk>>), Formula("divide", <<Var(<<"nope">>), Num(2)>>) }

\* Such a calculate on a field, after a write to the field or to another field
\* (or after nothing), before a transformation that reads or extends them.
FollowUps(f) ==
    { Set("after", Var(<<f>>)), AppendValue(f, Str("!")),
      Calculate("u", Formula("add", <<Var(<<"n">>), Num(1)>>)) }

FailingLists ==
    UNION { { pre \o <<Calculate(f, formula)>> \o <<post>> :
                pre \in {<<>>, <<Set("n", Num(5))>>, <<Set("t", Str("x"))>>},
                formula \in FailingFormulas, post \in FollowUps(f) } :
            f \in {"n", "t"} }

TransformationCalls ==
    {PureCall("ApplyTransformations", [ts |-> ts], d) :
        ts \in SeqsUpTo(Transformations, MaxTransformations) \cup {AllFour} \cup FailingLists,
        d \in DataMaps}

\* calculate with add and sum over every list of up to MaxArgs arguments, and
\* with divide over every list of up to three.
SumArguments ==
    { Var(<<"price">>), Var(<<"tax">>), NegVar(<<"discount">>), Decimal(3, 2), NegNum(4),
      Junk, Var(<<"word">>), Var(<<"s">>) }

DivideArguments ==
    { Var(<<"a">>), Var(<<"b">>), Num(0), Num(2), Decimal(3, 2), Junk, Var(<<"word">>),
      Var(<<"s">>) }

\* Longest list of arguments of a sum.
MaxArgs == 4

CalculateCalls ==
    {PureCall("ApplyTransformations",
              [ts |-> <<Calculate("total", Formula(op, args))>>], DataNumbers) :
        op \in {"add", "sum"}, args \in SeqsUpTo(SumArguments, MaxArgs)}
    \cup
    {PureCall("ApplyTransformations",
              [ts |-> <<Calculate("r", Formula("divide", args))>>], DataNumbers) :
        args \in SeqsUpTo(DivideArguments, 3)}

CallApplyTransformations ==
    /\ pure.fn = "ApplyTransformations"
    /\ ~pure.done
    /\ heap' = ApplyTransformations(heap, 1, pure.x.ts, pure.d).h
    /\ pure' = [pure EXCEPT !.done = TRUE,
                            !.out = MapRef(ApplyTransformations(heap, 1, pure.x.ts, pure.d).a)]
    /\ UNCHANGED <<crudVars, db, dyn, calls>>

\* The same list applied to the map the first application returned, as the
\* apiCall action does around its call.
CallApplyTransformationsAgain ==
    /\ pure.fn = "ApplyTransformations"
    /\ pure.done
    /\ heap' = ApplyTransformations(heap, 1, pure.x.ts, pure.out.a).h
    /\ pure' = [fn |-> "ApplyTransformations twice",
                x |-> [ts |-> pure.x.ts, once |-> pure.out],
                d |-> pure.d,
                done |-> TRUE,
                out |-> MapRef(ApplyTransformations(heap, 1, pure.x.ts, pure.out.a).a)]
    /\ UNCHANGED <<crudVars, db, dyn, calls>>

\* Conditions on single keys and on dotted paths, present and absent, with
\* every operator and one unknown operator.
ConditionFields ==
    { <<"role">>, <<"n">>, <<"word">>, <<"none">>, <<"missing">>, <<"user", "role">>,
      <<"ghost", "role">>, <<"user", "ghost">>, <<"name", "x">> }

Operators == {"eq", "neq", "contains", "in", "gt", "lt", "gte", "lte", "like"}

ConditionValues ==
    {Str("admin"), Str("b"), Num(1), Nil, List(<<Str("admin"), Num(2)>>)}

Conditions ==
    {Cond(f, op, v) : f \in ConditionFields, op \in Operators, v \in ConditionValues}

ConditionCalls == {PureCall("evaluateCondition", c, d) : c \in Conditions, d \in DataMaps}

CallEvaluateCondition ==
    /\ pure.fn = "evaluateCondition"
    /\ ~pure.done
    /\ pure' = [pure EXCEPT !.done = TRUE,
                            !.out = Bool(evaluateCondition(heap, pure.x, pure.d))]
    /\ UNCHANGED <<crudVars, heap, db, dyn, calls>>

\* Lists of conditions, and blocks over them whose actions leave a mark of
\* their own in the data and return a response of their own.
BaseConditions ==
    { Cond(<<"role">>, "eq", Str("admin")), Cond(<<"name">>, "eq", Str("Ada")),
      Cond(<<"n">>, "gt", Num(1)), Cond(<<"missing">>, "neq", Str("x")),
      Cond(<<"word">>, "contains", Str("b")),
      Cond(<<"role">>, "in", List(<<Str("admin"), Num(2)>>)) }

\* Longest list of conditions of one call.
MaxConditions == 3

ConditionLists == SeqsUpTo(BaseConditions, MaxConditions)

ConditionsCalls ==
    {PureCall("evaluateConditions", [conditions |-> cs], d) :
        cs \in ConditionLists, d \in DataMaps}

CallEvaluateConditions ==
    /\ pure.fn = "evaluateConditions"
    /\ ~pure.done
    /\ pure' = [pure EXCEPT !.done = TRUE,
                            !.out = Bool(evaluateConditions(heap, pure.x.conditions, pure.d))]
    /\ UNCHANGED <<crudVars, heap, db, dyn, calls>>

ThenAction ==
    Action("return", <<Set("branch", Str("then"))>>, Str("then"), FALSE, NilBlock, NilApiCall)

ElseAction ==
    Action("return", <<Set("branch", Str("else"))>>, Str("else"), FALSE, NilBlock, NilApiCall)

\* conditions [role eq "admin"], Then returns {ok: true, who: "$name"}, Else
\* returns {ok: false}
AdminFlow ==
    Block(<<Cond(<<"role">>, "eq", Str("admin"))>>,
          Action("return", <<>>, MapRef(TemplateOk), FALSE, NilBlock, NilApiCall),
          Action("return", <<>>, MapRef(TemplateNo), FALSE, NilBlock, NilApiCall))

\* Blocks whose two actions return, against an empty definition store.
BranchFlows == {Block(cs, ThenAction, ElseAction) : cs \in ConditionLists} \cup {AdminFlow}

\* The definition store of the calls below: one definition, "t", answering "ok".
ReturnLists ==
    { List(<<MapRef(PairWho), MapRef(PairOk)>>), List(<<MapRef(PairWho), MapRef(PairWho)>>),
      List(<<MapRef(PairLower)>>), List(<<MapRef(PairWho), MapRef(PairLower)>>),
      List(<<MapRef(PairNoKey), MapRef(PairOk)>>),
      List(<<Var(<<"name">>), Str("z")>>), List(<<MapRef(PairWho), Str("z")>>),
      List(<<MapRef(TemplateOk)>>), List(<<>>) }

FlowList(l) ==
    Block(<<>>, Action("return", <<>>, l, FALSE, NilBlock, NilApiCall), NilAction)

TargetStore ==
    { Stored(<<>>, Definition(1, "t", "POST", "t", <<>>, FlowReturning, "")),
      Stored(PureHeap, Definition(2, "pairs", "POST", "pairs", <<>>,
                                  FlowList(List(<<MapRef(PairWho), MapRef(PairOk)>>)), "")) }

\* The transformation lists of an action: none, or one set.
ActionTransforms == {<<>>, <<Set("branch", Str("then"))>>}

\* apiCall actions: the target registered or not, the result under a single
\* key or a dotted path, returnData absent or an object.
ApiCallActions ==
    {Action("apiCall", ts, rd, FALSE, NilBlock, ApiCall(target, <<>>, rf)) :
        ts \in ActionTransforms, rd \in {Nil, MapRef(TemplateOk)},
        target \in {"t", "zz"}, rf \in {<<"r">>, <<"user", "res">>}}

\* apiCall actions with one parameter, uid: a reference that resolves to a
\* value, to null or to nothing, a literal and a literal null.
ParameterValues ==
    { Var(<<"name">>), Var(<<"none">>), Var(<<"missing">>), Var(<<"user", "ghost">>),
      Var(<<"user", "id">>), Str("7"), Nil }

ParameterActions ==
    {Action("apiCall", <<>>, Nil, save, NilBlock, ApiCall("t", [uid |-> p], <<"r">>)) :
        p \in ParameterValues, save \in BOOLEAN}

\* Actions of every type, with and without transformations.
PlainActions ==
    {Action(type, ts, Nil, FALSE, NilBlock, NilApiCall) :
        type \in {"return", "continue", "conditionalBlock", "other"}, ts \in ActionTransforms}

NestedActions ==
    {Action("conditionalBlock", ts, Nil, FALSE, Block(<<>>, a, NilAction), NilApiCall) :
        ts \in ActionTransforms,
        a \in {x \in PlainActions \cup ApiCallActions :
                 x.transform = <<>> /\ x.returnData = Nil}}

ActionFlows ==
    {Block(<<>>, a, NilAction) :
        a \in PlainActions \cup ApiCallActions \cup NestedActions \cup ParameterActions}
        \cup {NilBlock, Block(<<>>, NilAction, NilAction)}
        \cup {FlowList(l) : l \in ReturnLists}
        \cup {FlowCalling("pairs")}

FlowCalls ==
    {PureCall("ProcessConditionalFlow", [flow |-> f, store |-> {}], d) :
        f \in BranchFlows, d \in DataMaps}
      \cup {PureCall("ProcessConditionalFlow", [flow |-> f, store |-> TargetStore], d) :
               f \in ActionFlows, d \in DataMaps}

\* The response and the final data of the call, with the maps they refer to.
FlowResult(r) == [resp |-> Deep(r.h, r.resp), final |-> Deep(r.h, MapRef(r.final)),
                  save |-> r.save, err |-> r.err]

CallProcessConditionalFlow ==
    /\ pure.fn = "ProcessConditionalFlow"
    /\ ~pure.done
    /\ heap' = ProcessConditionalFlow(heap, 1, pure.x.store, pure.x.flow, pure.d).h
    /\ pure' = [pure EXCEPT
                  !.done = TRUE,
                  !.out = FlowResult(ProcessConditionalFlow(heap, 1, pure.x.store, pure.x.flow,
                                                            pure.d))]
    /\ UNCHANGED <<crudVars, db, dyn, calls>>

\* Collections, unique keys and data maps of SaveData.
Doc7Ada == [id |-> Str("7"), name |-> Str("Ada")]
Doc7Bob == [id |-> Str("7"), name |-> Str("Bob")]
Doc8Ada == [id |-> Str("8"), name |-> Str("Ada")]

Collections == {<<>>, <<Doc7Ada>>, <<Doc7Bob>>, <<Doc8Ada>>, <<Doc8Ada, Doc7Bob, Doc7Ada>>}

SaveMaps ==
    { Doc7Ada, [id |-> Str("7")], [id |-> Str("7"), name |-> Str("Ada"), age |-> Num(3)],
      [id |-> Str(""), name |-> Str("Ada")], [name |-> Str("Ada")],
      [id |-> Nil, name |-> Str("Ada")], [_id |-> Str("x"), id |-> Str("7")] }

SaveCalls ==
    {PureCall("SaveData", [coll |-> c, uniqueKey |-> uk, data |-> m], 0) :
        c \in Collections, uk \in {"id", "name", ""}, m \in SaveMaps}

\* Two successive SaveData calls with the same arguments.
CallSaveData ==
    /\ pure.fn = "SaveData"
    /\ ~pure.done
    /\ db' = SaveData(SaveData(pure.x.coll, pure.x.uniqueKey, pure.x.data),
                      pure.x.uniqueKey, pure.x.data)
    /\ pure' = [pure EXCEPT
                  !.done = TRUE,
                  !.out = [first |-> SaveData(pure.x.coll, pure.x.uniqueKey, pure.x.data)]]
    /\ UNCHANGED <<crudVars, heap, dyn, calls>>

\* Templates: scalars, "$path" strings that resolve and that do not, objects and
\* lists with and without them.
Templates ==
    { Nil, Str("plain"), Num(1), Bool(TRUE),
      Var(<<"name">>), Var(<<"user">>), Var(<<"user", "role">>), Var(<<"nope">>),
      Var(<<"name", "x">>),
      MapRef(TemplateOk), MapRef(TemplateNo), MapRef(TemplatePlain), MapRef(TemplateDeep),
      List(<<>>), List(<<Var(<<"name">>), MapRef(TemplateOk), Str("z")>>),
      List(<<Num(1), List(<<Var(<<"n">>)>>)>>) }

SubstituteCalls ==
    {PureCall("SubstituteVariables", [template |-> t], d) : t \in Templates, d \in DataMaps}

CallSubstituteVariables ==
    /\ pure.fn = "SubstituteVariables"
    /\ ~pure.done
    /\ heap' = SubstituteVariables(heap, 1, pure.x.template, pure.d).h
    /\ pure' = [pure EXCEPT
                  !.done = TRUE,
                  !.out = SubstituteVariables(heap, 1, pure.x.template, pure.d).v]
    /\ UNCHANGED <<crudVars, db, dyn, calls>>

\* ------------------------------------------------------------ specification
CrudInit ==
    /\ store = {}
    /\ uniqueIndexes \in BOOLEAN
    /\ dynamicRoutes = <<>>
    /\ nextId = 1
    /\ req = [w \in Workers |-> Idle]
    /\ nStarted = 0
    /\ heap = <<>>
    /\ db = <<>>
    /\ dyn = [w \in Workers |-> DynIdle]
    /\ calls = NoCalls
    /\ pure = NoPure

CrudNext ==
    \E w \in Workers :
         \/ StartCreate(w) \/ StartUpdate(w) \/ StartDelete(w) \/ StartDetail(w)
         \/ CreateCountName(w) \/ CreateCountEndpoint(w) \/ CreateInsert(w) \/ CreateCache(w)
         \/ UpdateGet(w) \/ UpdateFindOne(w) \/ UpdateConflict(w) \/ UpdateOne(w)
         \/ UpdateFetch(w) \/ UpdateLock(w) \/ UpdateRemoveOld(w) \/ UpdateCache(w)
         \/ DeleteGet(w) \/ DeleteOne(w) \/ DeleteCache(w)
         \/ GetAPIDetail(w)
         \/ StartDynamic(w) \/ DynamicLookup(w)
         \/ Respond(w)

\* Requests run one at a time.
InitSeq == CrudInit /\ overlap = FALSE
SpecSeq == InitSeq /\ [][CrudNext]_vars

\* Requests overlap: each worker serves its request concurrently with the others.
InitConc == CrudInit /\ overlap = TRUE
SpecConc == InitConc /\ [][CrudNext]_vars

\* Dynamic requests against the registered definitions, overlapping freely.
InitDyn ==
    /\ store = {Stored(DefinitionHeap, d) : d \in StoredDefinitions}
    /\ uniqueIndexes = FALSE
    /\ dynamicRoutes = [k \in {DocKey(d) : d \in Definitions} |->
                           CHOOSE d \in Definitions : DocKey(d) = k]
    /\ nextId = Cardinality(StoredDefinitions) + 1
    /\ req = [w \in Workers |-> Idle]
    /\ overlap = TRUE
    /\ nStarted = 0
    /\ heap = DefinitionHeap
    /\ db = <<>>
    /\ dyn = [w \in Workers |-> DynIdle]
    /\ calls = NoCalls
    /\ pure = NoPure

DynNext ==
    \E w \in Workers : DynStart(w) \/ Dispatch(w) \/ Cancel(w) \/ Save(w) \/ DynRespond(w)

SpecDyn == InitDyn /\ [][DynNext]_vars

\* One invocation of the interpreter against any registry of three definitions.
InitCall ==
    /\ store \in Registries
    /\ uniqueIndexes = FALSE
    /\ dynamicRoutes = <<>>
    /\ nextId = 4
    /\ req = [w \in Workers |-> Idle]
    /\ overlap = FALSE
    /\ nStarted = 0
    /\ heap = <<>>
    /\ db = <<>>
    /\ dyn = [w \in Workers |-> DynIdle]
    /\ calls = NoCalls
    /\ pure = NoPure

CallNext == Invoke \/ Enter \/ Return

SpecCall == InitCall /\ [][CallNext]_vars

\* Requests of every method, with query arguments and body fields that share
\* keys or not.
MergeInputs ==
    { Input(method, <<Lit("leaf")>>, query, body) :
        method \in {"GET", "POST", "PUT", "PATCH", "DELETE"},
        query \in {<<>>, [id |-> "2"], [id |-> "2", q |-> "z"]},
        body \in {<<>>, IdOne, [id |-> Str("1"), mode |-> Str("x")], [q |-> Num(3)]} }

MergeCalls == {PureCall("MergeRequest", [in |-> in], 0) : in \in MergeInputs}

CallMergeRequest ==
    /\ pure.fn = "MergeRequest"
    /\ ~pure.done
    /\ pure' = [pure EXCEPT !.done = TRUE, !.out = [reqData |-> MergeRequest(pure.x.in)]]
    /\ UNCHANGED <<crudVars, heap, db, dyn, calls>>

\* The default logic of every verb on request data that matches documents of
\* the collection or none, and the empty request data; then step 7.
DefaultData == {<<>>, [id |-> Str("7")], [name |-> Str("Ada")], [id |-> Str("9")]}

DefaultCalls ==
    {PureCall("DefaultLogic", [method |-> method, coll |-> c, data |-> m], 0) :
        method \in {"GET", "POST", "PUT", "PATCH", "DELETE"}, c \in Collections,
        m \in DefaultData}

CallDefaultLogic ==
    /\ pure.fn = "DefaultLogic"
    /\ ~pure.done
    /\ LET currentDataState == Len(heap) + 1
           r == DefaultLogic(Alloc(heap, 1, pure.x.data), 1, pure.x.coll, pure.x.method,
                             currentDataState, FALSE)
           f == FinalResponse(r.h, 1, r.response, r.err, r.status)
       IN /\ heap' = f.h
          /\ db' = r.db
          /\ pure' = [pure EXCEPT !.done = TRUE,
                                  !.out = [status |-> f.status, body |-> f.body,
                                           saveData |-> r.saveData,
                                           storeCalls |-> r.storeCalls]]
    /\ UNCHANGED <<crudVars, dyn, calls>>

DeleteCalls ==
    {PureCall("DeleteData", [coll |-> c, filter |-> f], 0) :
        c \in Collections, f \in DefaultData}

CallDeleteData ==
    /\ pure.fn = "DeleteData"
    /\ ~pure.done
    /\ db' = DeleteData(pure.x.coll, pure.x.filter).db
    /\ pure' = [pure EXCEPT
                  !.done = TRUE,
                  !.out = [err |-> DeleteData(pure.x.coll, pure.x.filter).err,
                           deletedCount |->
                               DeleteData(pure.x.coll, pure.x.filter).deletedCount]]
    /\ UNCHANGED <<crudVars, heap, dyn, calls>>

\* One call of a function of the core package on any of its argument tuples.
PureCalls ==
    TransformationCalls \cup CalculateCalls \cup ConditionCalls \cup ConditionsCalls \cup FlowCalls
        \cup SaveCalls \cup SubstituteCalls \cup MergeCalls
        \cup DefaultCalls \cup DeleteCalls

InitPure ==
    /\ store = {}
    /\ uniqueIndexes = FALSE
    /\ dynamicRoutes = <<>>
    /\ nextId = 1
    /\ req = [w \in Workers |-> Idle]
    /\ overlap = FALSE
    /\ nStarted = 0
    /\ heap = PureHeap
    /\ db = <<>>
    /\ dyn = [w \in Workers |-> DynIdle]
    /\ calls = NoCalls
    /\ pure \in PureCalls

PureNext ==
    \/ CallApplyTransformations
    \/ CallApplyTransformationsAgain
    \/ CallEvaluateCondition
    \/ CallEvaluateConditions
    \/ CallProcessConditionalFlow
    \/ CallSaveData
    \/ CallSubstituteVariables
    \/ CallMergeRequest
    \/ CallDefaultLogic
    \/ CallDeleteData

SpecPure == InitPure /\ [][PureNext]_vars

Quiescent == \A w \in Workers : req[w].pc \in {"idle", "done"}

\* ===================================================================== claims
PreStore(w) == req[w].pre[1]
PreRoutes(w) == req[w].pre[2]
Unchanged(w) == store = PreStore(w) /\ dynamicRoutes = PreRoutes(w)

\* The route table holds exactly the stored definitions, each under its own key.
TableMatchesStore ==
    /\ DOMAIN dynamicRoutes = {DocKey(d) : d \in store}
    /\ \A d \in store : dynamicRoutes[DocKey(d)] = d

\* C1: when requests do not overlap, after each completed request (successful or
\* rejected) the route table holds one entry METHOD:ENDPOINT -> definition for
\* every stored definition, no other entry, and each entry equals the stored
\* definition.
C1_RouteTableCoherent == Quiescent => TableMatchesStore

\* An update that moved a definition to another key has completed, next to a
\* second stored definition.
C1_Witness ==
    \E w \in Workers :
        /\ req[w].kind = "update" /\ req[w].pc = "done" /\ req[w].status = 200
        /\ Cardinality(store) = 2
        /\ \E old \in PreStore(w), new \in store :
              old.id = new.id /\ DocKey(old) # DocKey(new)

\* C2: for every interleaving of overlapping create, update and delete requests,
\* once all of them have completed every stored definition has its entry under
\* its current key holding the stored definition, and no entry remains for a key
\* that no stored definition has.
C2_CoherentOnceAllCompleted ==
    (\A w \in Workers : req[w].pc \in {"idle", "done"}) =>
        /\ \A d \in store :
              DocKey(d) \in DOMAIN dynamicRoutes /\ dynamicRoutes[DocKey(d)] = d
        /\ \A k \in DOMAIN dynamicRoutes : \E d \in store : DocKey(d) = k

\* C3: in every reachable state of the definition store, under every interleaving
\* of create and update requests, no two stored definitions have the same name and
\* no two have the same (method, endpoint).
C3_StoreUnique ==
    \A d1, d2 \in store :
        d1 # d2 => /\ d1.name # d2.name
                   /\ <<d1.method, d1.endpoint>> # <<d2.method, d2.endpoint>>

\* C4: running a flow for one dynamic request changes nothing another request
\* can observe: a step of a request writes to no map of another request and to
\* no map of a registered definition (the object values of its set
\* transformations, of its apiCall parameters and of its returnData templates);
\* the only maps a step changes are those the stepping request allocated itself.
C4_FlowsDoNotInterfere ==
    [][\A a \in DOMAIN heap :
          heap'[a] # heap[a] =>
              \E w \in Workers : dyn'[w] # dyn[w] /\ heap[a].owner = dyn[w].rid]_vars

\* What the router's template matching means: a path instantiates a template when
\* they have the same number of segments and agree on every literal segment.
Instantiates(path, template) ==
    /\ Len(path) = Len(template)
    /\ \A i \in 1..Len(template) : template[i].param \/ template[i].s = path[i].s

\* The path parameters of that match, as (name, value) pairs.
PathParams(path, template) ==
    {<<template[i].s, path[i].s>> : i \in {j \in 1..Len(template) : template[j].param}}

\* C5: a registered definition whose endpoint has `:name` segments is served for
\* every request whose method matches and whose path instantiates the template,
\* and the extracted path parameters are put into the request data.
C5_TemplateRoutesServed ==
    \A w \in Workers :
        (req[w].kind = "dynamic" /\ req[w].pc = "done") =>
            \A k \in DOMAIN dynamicRoutes :
                LET d == dynamicRoutes[k] IN
                (d.method = req[w].payload.method /\ Instantiates(req[w].path, d.endpoint))
                    => /\ req[w].hit
                       /\ req[w].updated = d
                       /\ req[w].params = PathParams(req[w].path, d.endpoint)

\* C6: a detail, update or delete request for a name that is not in the store is
\* answered with 404 and leaves the store and the route table unchanged.
C6_UnknownNameIs404 ==
    \A w \in Workers :
        (/\ req[w].pc = "done"
         /\ req[w].kind \in {"detail", "update", "delete"}
         /\ ByName(PreStore(w), req[w].name) = {})
            => req[w].status = 404 /\ Unchanged(w)

\* The update of definition B in worker w names the (method, endpoint) of another
\* stored definition A, with a payload that passes the required-field validation.
TakesOthersKey(w, A, B) ==
    /\ req[w].kind = "update"
    /\ B.name = req[w].name /\ A.name # B.name
    /\ ~UpdateMissingRequired(req[w].payload)
    /\ <<B.method, B.endpoint>> # <<req[w].payload.method, req[w].payload.endpoint>>
    /\ <<A.method, A.endpoint>> = <<req[w].payload.method, req[w].payload.endpoint>>

C8_CreateRejections ==
    \A w \in Workers :
        (req[w].kind = "create" /\ req[w].pc = "done") =>
            LET p == req[w].payload
                taken == \/ CountName(PreStore(w), p.name) > 0
                         \/ CountEndpoint(PreStore(w), p.method, p.endpoint) > 0
            IN /\ CreateMissingRequired(p) => (req[w].status = 400 /\ Unchanged(w))
               /\ (~CreateMissingRequired(p) /\ taken) => (req[w].status = 409 /\ Unchanged(w))

\* A create with a fresh name and a taken (method, endpoint) has been refused.
C8_Witness ==
    \E w \in Workers :
        /\ req[w].kind = "create" /\ req[w].pc = "done" /\ req[w].status = 409
        /\ CountName(PreStore(w), req[w].payload.name) = 0
        /\ CountEndpoint(PreStore(w), req[w].payload.method, req[w].payload.endpoint) > 0

\* The action the root block of the request's definition selects (Then or Else),
\* evaluated on the request data.
SelectedAction(w) ==
    LET flow == dyn[w].api.body.conditionalFlow
    IN IF evaluateConditions(heap, flow.conditions, dyn[w].reqData)
         THEN flow.then ELSE flow.else

\* The action that is finally executed and the data state after its
\* transformations: a conditionalBlock with a nested flow hands over to the
\* action its nested flow selects on the transformed data.
RECURSIVE ExecutedAction(_, _, _)
ExecutedAction(h, flow, data) ==
    LET act == IF evaluateConditions(h, flow.conditions, data) THEN flow.then ELSE flow.else
    IN IF act.t = "nilAction" THEN [act |-> act, h |-> h, data |-> data]
       ELSE LET t == ApplyTransformations(h, 0, act.transform, data)
            IN IF act.type = "conditionalBlock" /\ act.conditionalFlow.t # "nilBlock"
                 THEN ExecutedAction(t.h, act.conditionalFlow, t.a)
                 ELSE [act |-> act, h |-> t.h, data |-> t.a]

\* The data state after the transformations of an action, as a document.
PostActionState(e) == ToBSON(e.h, MapRef(e.data)).m

RECURSIVE PathValid(_, _, _)
PathValid(h, current, parts) ==
    \/ Len(parts) = 1
    \/ ~Has(h, current, parts[1])
    \/ /\ IsPlainMap(h[current].m[parts[1]])
       /\ PathValid(h, h[current].m[parts[1]].a, Tail(parts))

\* The apiCall of action e.act goes through: it has a configuration, its target
\* is stored, no parameter is null and the result path can be written.
CallCompletes(e) ==
    /\ e.act.apiCall.t # "nilApiCall"
    /\ ByName(store, e.act.apiCall.apiName) # {}
    /\ \A k \in DOMAIN e.act.apiCall.parameters : e.act.apiCall.parameters[k] # Nil
    /\ PathValid(e.h, e.data, e.act.apiCall.resultField)

C10_SaveFailureReported ==
    \A w \in Workers :
        (/\ dyn[w].pc = "done"
         /\ dyn[w].saveFailed
         /\ dyn[w].flowRan \/ dyn[w].defaultWrite)
            => /\ dyn[w].status = 500
               /\ dyn[w].body = ErrorBody("failed to save data to database")

\* C11: if a dynamic request is cancelled (or its request-scoped deadline passes)
\* before the dispatcher reaches the save step, no save is issued for it: a save
\* is only ever started while the request is still live.
C11_NoSaveAfterCancel ==
    [][\A w \in Workers :
          (dyn[w].cancelled /\ ~dyn[w].issued.called) => ~dyn'[w].issued.called]_vars

\* Blocks on the longest path of nested blocks of a flow.
RECURSIVE FlowDepth(_)
FlowDepth(flow) ==
    IF flow.t = "nilBlock" THEN 0
    ELSE LET d(a) == IF a.t = "nilAction" THEN 0 ELSE FlowDepth(a.conditionalFlow)
         IN 1 + (IF d(flow.then) >= d(flow.else) THEN d(flow.then) ELSE d(flow.else))

RECURSIVE DefinitionsSize(_)
DefinitionsSize(st) ==
    IF st = {} THEN 0
    ELSE LET d == CHOOSE x \in st : TRUE
         IN FlowDepth(d.body.conditionalFlow) + DefinitionsSize(st \ {d})

\* C12: every invocation of the flow interpreter terminates with a recursion
\* depth bounded by the size of the definitions involved, however the apiCall
\* actions of the registered definitions name one another: the stack of an
\* invocation never holds more frames than the registered flows have blocks.
C12_DepthBounded == Len(calls.stack) <= DefinitionsSize(store)

\* C13: ApplyTransformations(ts, d) never mutates d: after the call the map d,
\* and every map reachable from it, equals its snapshot from before the call,
\* for every list ts of set, remove, append and calculate transformations.
C13_ApplyTransformationsPure ==
    (pure.fn = "ApplyTransformations" /\ pure.done) =>
        /\ \A a \in DOMAIN PureHeap : heap[a] = PureHeap[a]
        /\ Deep(heap, MapRef(pure.d)) = Deep(PureHeap, MapRef(pure.d))

\* A call with all four operations returned a map that differs from d in the
\* fields set, removed, appended to and calculated.
C13_Witness ==
    /\ pure.fn = "ApplyTransformations" /\ pure.done
    /\ pure.x.ts = AllFour /\ pure.d = DataAdmin
    /\ pure.out.a # pure.d
    /\ heap[pure.out.a].m["role"] = Str("x2")
    /\ "name" \notin DOMAIN heap[pure.out.a].m
    /\ heap[pure.out.a].m["t"] = Num(9)

\* The value a dotted path reaches in the data map of the call, if any.
Reached == Traverse(PureHeap, MapRef(pure.d), pure.x.field)

\* C14: for a condition whose field, a single key or a dotted path, is not
\* present in the data map, evaluateCondition returns true when the operator is
\* neq and false for every other operator, whatever the condition value.
C14_MissingFieldAsymmetry ==
    (pure.fn = "evaluateCondition" /\ pure.done /\ ~Reached.ok) =>
        pure.out = Bool(pure.x.operator = "neq")

\* C15: evaluateCondition resolves the field as a dotted path through nested
\* maps and applies the operator to the value found there: eq holds exactly when
\* that value deeply equals the condition value, neq exactly when it does not.
C15_DottedPathCompared ==
    (/\ pure.fn = "evaluateCondition" /\ pure.done
     /\ Reached.ok /\ Reached.v # Nil
     /\ pure.x.operator \in {"eq", "neq"}) =>
        pure.out = Bool((pure.x.operator = "eq") <=>
                           (Deep(PureHeap, Reached.v) = Deep(PureHeap, pure.x.value)))

\* Every condition of the block of the call is met by the data of the call.
AllConditionsHold ==
    \A i \in 1..Len(pure.x.flow.conditions) :
        evaluateCondition(PureHeap, pure.x.flow.conditions[i], pure.d)

ObjectOf(m) == [t |-> "map", kind |-> "map", m |-> m]

\* C16: a flow block executes its Then action if and only if all its conditions
\* hold on the current data, and its Else action otherwise, never both: the
\* response and the mark left in the final data are those of the one action
\* selected; with conditions [role eq "admin"], the data {role: "admin",
\* name: "Ada"} yields {ok: true, who: "Ada"} and {role: "user", name: "Ada"}
\* yields {ok: false}.
C16_ThenIffConditionsHold ==
    (pure.fn = "ProcessConditionalFlow" /\ pure.done /\ pure.x.flow \in BranchFlows) =>
        /\ pure.out.err = ""
        /\ pure.x.flow # AdminFlow =>
              /\ pure.out.resp = Str(IF AllConditionsHold THEN "then" ELSE "else")
              /\ pure.out.final.m["branch"] = pure.out.resp
        /\ (pure.x.flow = AdminFlow /\ pure.d = DataUser) =>
              pure.out.resp = ObjectOf([ok |-> Bool(FALSE)])
        /\ (pure.x.flow = AdminFlow /\ pure.d = DataAdmin) =>
              pure.out.resp = ObjectOf([ok |-> Bool(TRUE), who |-> Str("Ada")])

\* The block [role eq "admin"] has answered {ok: false} for {role: "user",
\* name: "Ada"}.
C16_Witness ==
    /\ pure.fn = "ProcessConditionalFlow" /\ pure.done
    /\ pure.x.flow = AdminFlow /\ pure.d = DataUser
    /\ pure.out.resp = ObjectOf([ok |-> Bool(FALSE)])

\* C17: evaluateConditions(cs, d) is true if and only if evaluateCondition(c, d)
\* is true for every c in cs; for the empty list it is true.
C17_Conjunction ==
    (pure.fn = "evaluateConditions" /\ pure.done) =>
        /\ pure.out = Bool(\A i \in 1..Len(pure.x.conditions) :
                               evaluateCondition(PureHeap, pure.x.conditions[i], pure.d))
        /\ pure.x.conditions = <<>> => pure.out = Bool(TRUE)

\* A list of three conditions of which only the last is not met has been
\* evaluated to false.
C17_Witness ==
    /\ pure.fn = "evaluateConditions" /\ pure.done
    /\ Len(pure.x.conditions) = 3
    /\ evaluateCondition(PureHeap, pure.x.conditions[1], pure.d)
    /\ evaluateCondition(PureHeap, pure.x.conditions[2], pure.d)
    /\ ~evaluateCondition(PureHeap, pure.x.conditions[3], pure.d)
    /\ pure.out = Bool(FALSE)

\* The documents of a collection that carry value v under key k.
WithKey(coll, k, v) == {i \in DOMAIN coll : k \in DOMAIN coll[i] /\ coll[i][k] = v}

RECURSIVE HasVariable(_, _)
HasVariable(h, t) ==
    CASE t.t = "var" -> TRUE
      [] t.t = "ref" -> \E k \in DOMAIN h[t.a].m : HasVariable(h, h[t.a].m[k])
      [] t.t = "list" -> \E i \in DOMAIN t.items : HasVariable(h, t.items[i])
      [] OTHER -> FALSE

\* The value SubstituteVariables returns for template t on the data of the call.
Substituted(t) ==
    LET r == SubstituteVariables(PureHeap, 1, t, pure.d) IN Deep(r.h, r.v)

\* C19: SubstituteVariables recurses exactly into map values and list elements
\* and leaves map keys unchanged (the result for an object has the keys of the
\* template and under each key the result for the value; the result for a list
\* has, element by element, the results for the elements); for a template
\* without "$" strings the result deeply equals the template; and no map that
\* existed before the call, d included, is changed by it.
C19_SubstituteHomomorphic ==
    (pure.fn = "SubstituteVariables" /\ pure.done) =>
        LET t == pure.x.template
            out == Deep(heap, pure.out)
        IN /\ t.t = "ref" =>
                 /\ out.t = "map"
                 /\ DOMAIN out.m = DOMAIN PureHeap[t.a].m
                 /\ \A k \in DOMAIN out.m : out.m[k] = Substituted(PureHeap[t.a].m[k])
           /\ t.t = "list" =>
                 /\ out.t = "list"
                 /\ Len(out.items) = Len(t.items)
                 /\ \A i \in DOMAIN t.items : out.items[i] = Substituted(t.items[i])
           /\ ~HasVariable(PureHeap, t) => out = Deep(PureHeap, t)
           /\ \A a \in DOMAIN PureHeap : heap[a] = PureHeap[a]

\* The template {u: "$user", r: "$user.role", deep: {ok: true, who: "$name"},
\* l: ["$name", "z"], miss: "$nope"} has been substituted on the data with a
\* nested user.
C19_Witness ==
    /\ pure.fn = "SubstituteVariables" /\ pure.done
    /\ pure.x.template = MapRef(TemplateDeep) /\ pure.d = DataAdmin
    /\ Deep(heap, pure.out).m["r"] = Str("admin")
    /\ Deep(heap, pure.out).m["deep"].m["who"] = Str("Ada")
    /\ Deep(heap, pure.out).m["l"].items[1] = Str("Ada")
    /\ Deep(heap, pure.out).m["miss"] = Nil

\* A required parameter of the definition matched by the request of worker w is
\* missing, null or the empty string in the merged request data.
RequiredParameterMissing(w) ==
    LET in == dyn[w].input
        parameters == dynamicRoutes[RouteKey(in.method, in.path)].body.parameters
        data == MergeRequest(in)
    IN \E i \in DOMAIN parameters :
          /\ parameters[i].required
          /\ \/ parameters[i].name \notin DOMAIN data
             \/ data[parameters[i].name] = Nil
             \/ data[parameters[i].name] = Str("")

\* C20: if a parameter of the matched definition with required = true is
\* missing, null or the empty string in the merged request data, the dispatcher
\* answers 400 with an error body and neither runs the flow or the default verb
\* logic nor touches the dynamic data store: the step that handles the request
\* allocates the request data map and nothing else, leaves the collection as it
\* is and issues no save.
C20_MissingRequiredIs400 ==
    [][\A w \in Workers :
          (/\ dyn[w].pc = "dispatch" /\ dyn'[w].pc # "dispatch"
           /\ RouteKey(dyn[w].input.method, dyn[w].input.path) \in DOMAIN dynamicRoutes
           /\ RequiredParameterMissing(w)) =>
              /\ dyn'[w].pc = "done"
              /\ dyn'[w].status = 400
              /\ dyn'[w].body = ErrorBody("Missing or empty required parameter")
              /\ ~dyn'[w].flowRan /\ ~dyn'[w].defaultWrite /\ ~dyn'[w].issued.called
              /\ db' = db
              /\ Len(heap') = Len(heap) + 1
              /\ \A a \in DOMAIN heap : heap'[a] = heap[a]]_vars

\* A request whose required id is the empty string has been answered 400 while
\* the collection holds what another request saved.
C20_Witness ==
    \E w \in Workers :
        /\ dyn[w].pc = "done" /\ dyn[w].status = 400
        /\ dyn[w].api.name = "ret"
        /\ "id" \in DOMAIN dyn[w].input.body
        /\ dyn[w].input.body["id"] = Str("")
        /\ ~dyn[w].issued.called
        /\ db # <<>>

DefaultServed(w) ==
    /\ dyn[w].pc \in {"save", "done"}
    /\ dyn[w].api # NoDoc
    /\ dyn[w].api.body.conditionalFlow.t = "nilBlock"
    /\ dyn[w].status \notin {0, 404}
    /\ \A i \in DOMAIN dyn[w].api.body.parameters :
           ~dyn[w].api.body.parameters[i].required

\* C22: for a definition with no conditionalFlow, a GET or DELETE request never
\* issues a save; a POST or PUT request issues exactly one save, whose data is
\* the request data map; a request of any other method is answered
\* {success, message} and issues no find, no save and no delete.
C22_DefaultLogicSaves ==
    \A w \in Workers :
        DefaultServed(w) =>
            LET d == dyn[w]
                method == d.input.method
            IN /\ method \in {"GET", "DELETE"} => (d.pc = "done" /\ d.issued.n = 0)
               /\ method \in {"POST", "PUT"} =>
                     /\ d.pc = "save" => d.issued.n = 0
                     /\ d.pc = "done" =>
                           (d.issued.n = 1 /\ d.issued.data = MergeRequest(d.input))
               /\ method \notin {"GET", "DELETE", "POST", "PUT"} =>
                     /\ d.pc = "done" /\ d.issued.n = 0 /\ d.storeCalls = {}
                     /\ d.status = 200
                     /\ d.body.t = "object"
                     /\ DOMAIN d.body.m = {"success", "message"}
                     /\ d.body.m["success"] = Bool(TRUE)

\* A PUT has issued its save, and a PATCH has been answered while the
\* collection holds a document.
C22_Witness ==
    \E w, v \in Workers :
        /\ DefaultServed(w) /\ dyn[w].pc = "done" /\ dyn[w].input.method = "PUT"
        /\ dyn[w].issued.data = [id |-> Str("2"), mode |-> Str("x")]
        /\ DefaultServed(v) /\ dyn[v].pc = "done" /\ dyn[v].input.method = "PATCH"
        /\ db # <<>>

\* C23: a default-logic DELETE request whose data map is empty is answered with
\* 400 and deletes nothing (no delete reaches the store); and the store's delete
\* with an empty filter returns ErrDeleteFailed and leaves the collection as it
\* was.
C23_EmptyDeleteRefused ==
    /\ (/\ pure.fn = "DefaultLogic" /\ pure.done
        /\ pure.x.method = "DELETE" /\ pure.x.data = <<>>) =>
            /\ pure.out.status = 400
            /\ pure.out.body.t = "object" /\ "error" \in DOMAIN pure.out.body.m
            /\ "delete" \notin pure.out.storeCalls
            /\ ~pure.out.saveData
            /\ db = pure.x.coll
    /\ (pure.fn = "DeleteData" /\ pure.done /\ pure.x.filter = <<>>) =>
            /\ pure.out.err = "ErrDeleteFailed"
            /\ pure.out.deletedCount = 0
            /\ db = pure.x.coll

\* A DELETE without any request data has been answered 400 on a collection of
\* three documents, all of them still there.
C23_Witness ==
    /\ pure.fn = "DefaultLogic" /\ pure.done
    /\ pure.x.method = "DELETE" /\ pure.x.data = <<>>
    /\ pure.out.status = 400
    /\ Len(pure.x.coll) = 3 /\ db = pure.x.coll

\* C24: for a request served by a return action whose returnData is a map
\* template, the body of the HTTP response is the template with its variables
\* substituted from the data state after the action's transformations, with all
\* of its top-level keys, a key named data included.
C24_ReturnDataSentWhole ==
    \A w \in Workers :
        (dyn[w].pc = "done" /\ dyn[w].flowRan /\ ~dyn[w].saveFailed) =>
            LET e == ExecutedAction(heap, dyn[w].api.body.conditionalFlow, dyn[w].reqData)
            IN (/\ e.act.t = "action" /\ e.act.type = "return"
                /\ IsPlainMap(e.act.returnData)) =>
                   LET s == SubstituteVariables(e.h, 0, e.act.returnData, e.data)
                   IN dyn[w].body = ToJSON(s.h, s.v)

\* The status a response map asks for: its numeric statusCode at top level, else
\* the numeric statusCode of its opdResult object, else 200.
RequestedStatus(h, response) ==
    LET m == h[response.a].m
        opd == IF "opdResult" \in DOMAIN m /\ m["opdResult"].t = "ref"
                 THEN h[m["opdResult"].a].m ELSE <<>>
        numeric(o) == "statusCode" \in DOMAIN o /\ o["statusCode"].t = "num"
    IN IF numeric(m) THEN m["statusCode"].n
       ELSE IF numeric(opd) THEN opd["statusCode"].n
       ELSE 200

\* C25: when a request succeeds and the response its flow produced is a map with
\* a numeric statusCode at top level, or under opdResult.statusCode, the HTTP
\* status of the reply is that number; without a statusCode the status is 200.
C25_StatusCodeHonoured ==
    \A w \in Workers :
        (/\ dyn[w].pc = "done" /\ dyn[w].flowRan /\ ~dyn[w].saveFailed
         /\ dyn[w].response.t = "ref") =>
            dyn[w].status = RequestedStatus(heap, dyn[w].response)

\* The response of the target of an apiCall to the parameters params, for a
\* target without a flow (its input) and for a target that returns a template
\* (the template with the parameters substituted), as a JSON value.
TargetResponse(h, target, params) ==
    LET flow == target.body.conditionalFlow
        h1 == Alloc(h, 0, params)
    IN IF flow.t = "nilBlock" THEN ToJSON(h1, MapRef(Len(h) + 1))
       ELSE LET s == SubstituteVariables(h1, 0, flow.then.returnData, Len(h) + 1)
            IN ToJSON(s.h, s.v)

\* C26: for an apiCall action whose returnData is a map, the response is the
\* returnData with its variables substituted from the data after the target's
\* response was stored at resultField: it has the keys of returnData, and a key
\* whose value refers to the resultField path carries the target's response.  A
\* call with uid = 7 to a target returning {id: "$uid", label: "u"}, resultField
\* out.user and returnData {user: "$out.user"} responds
\* {user: {id: "7", label: "u"}}.
C26_ApiCallReturnData ==
    \A w \in Workers :
        (dyn[w].pc = "done" /\ dyn[w].flowRan /\ ~dyn[w].saveFailed) =>
            LET e == ExecutedAction(heap, dyn[w].api.body.conditionalFlow, dyn[w].reqData)
                act == e.act
            IN (/\ act.t = "action" /\ act.type = "apiCall"
                /\ IsPlainMap(act.returnData) /\ CallCompletes(e)) =>
                   LET template == heap[act.returnData.a].m
                       target == CHOOSE d \in Definitions : d.name = act.apiCall.apiName
                       params == CallParams(e.h, act.apiCall.parameters, e.data)
                   IN /\ dyn[w].body.t = "object"
                      /\ DOMAIN dyn[w].body.m = DOMAIN template
                      /\ \A k \in DOMAIN template :
                             template[k] = Var(act.apiCall.resultField) =>
                                dyn[w].body.m[k] = TargetResponse(heap, target, params)
                      /\ (dyn[w].api.name = "a" /\ dyn[w].input.query = [uid |-> "7"]) =>
                             dyn[w].body =
                                [t |-> "object",
                                 m |-> [user |-> [t |-> "object",
                                                  m |-> [id |-> Str("7"),
                                                         label |-> Str("u")]]]]

\* The calculate transformation of the call, when the call applies exactly one.
TheCalculation ==
    IF /\ pure.fn = "ApplyTransformations" /\ pure.done /\ pure.d = DataNumbers
       /\ Len(pure.x.ts) = 1 /\ pure.x.ts[1].operation = "calculate"
      THEN pure.x.ts[1] ELSE Calculate("", Malformed)

\* The number an argument stands for in the data of the call, times two (the
\* denominators of this model are 1 and 2); no number: not ok.
TwiceValue(arg) ==
    LET data == PureHeap[DataNumbers].m
        field(path) ==
            IF Len(path) = 1 /\ path[1] \in DOMAIN data
              THEN (IF data[path[1]].t = "num" THEN [ok |-> TRUE, n |-> 2 * data[path[1]].n]
                    ELSE IF data[path[1]] = Str("7") THEN [ok |-> TRUE, n |-> 14]
                    ELSE [ok |-> FALSE, n |-> 0])
              ELSE [ok |-> FALSE, n |-> 0]
    IN CASE arg.t = "var" -> field(arg.path)
         [] arg.t = "negvar" -> [ok |-> field(arg.path).ok, n |-> 0 - field(arg.path).n]
         [] arg.t = "num" -> [ok |-> TRUE, n |-> 2 * arg.n]
         [] arg.t = "negnum" -> [ok |-> TRUE, n |-> 0 - 2 * arg.n]
         [] arg.t = "dec" -> [ok |-> TRUE, n |-> (2 * arg.p) \div arg.q]
         [] OTHER -> [ok |-> FALSE, n |-> 0]

RECURSIVE TwiceSum(_)
TwiceSum(args) ==
    IF args = <<>> THEN 0
    ELSE (IF TwiceValue(Head(args)).ok THEN TwiceValue(Head(args)).n ELSE 0)
           + TwiceSum(Tail(args))

\* A number given as twice its value, as it is stored in a map.
HalfOf(n) ==
    IF n % 2 = 0 THEN Num(n \div 2) ELSE [t |-> "quotient", dividend |-> n, divisor |-> 2]

Division(n, d) ==
    LET sign == IF (n < 0) = (d < 0) THEN 1 ELSE 0 - 1
        an == IF n < 0 THEN 0 - n ELSE n
        ad == IF d < 0 THEN 0 - d ELSE d
        g == CHOOSE k \in 1..(an + ad) :
                 /\ an % k = 0 /\ ad % k = 0
                 /\ \A j \in 1..(an + ad) : (an % j = 0 /\ ad % j = 0) => j <= k
    IN IF an % ad = 0 THEN Num(sign * (an \div ad))
       ELSE [t |-> "quotient", dividend |-> sign * (an \div g), divisor |-> ad \div g]

\* C28: calculate with "divide:a,b" and exactly two numeric arguments writes a/b
\* to the field when b is not 0 and writes 0 when b is 0, without an error:
\* "divide:$a,$b" on {a: 5, b: 0} sets r to 0.
C28_DivideByZeroIsZero ==
    (/\ TheCalculation.formula.t = "formula" /\ TheCalculation.formula.op = "divide"
     /\ Len(TheCalculation.formula.args) = 2
     /\ TwiceValue(TheCalculation.formula.args[1]).ok
     /\ TwiceValue(TheCalculation.formula.args[2]).ok) =>
        LET a == TwiceValue(TheCalculation.formula.args[1]).n
            b == TwiceValue(TheCalculation.formula.args[2]).n
        IN /\ "r" \in DOMAIN heap[pure.out.a].m
           /\ heap[pure.out.a].m["r"] = IF b = 0 THEN Num(0) ELSE Division(a, b)
           /\ TheCalculation.formula.args = <<Var(<<"a">>), Var(<<"b">>)>>
                 => heap[pure.out.a].m["r"] = Num(0)

\* divide:$a,$b has been calculated on a = 5, b = 0: r is 0.
C28_Witness ==
    /\ TheCalculation.formula = Formula("divide", <<Var(<<"a">>), Var(<<"b">>)>>)
    /\ "r" \in DOMAIN heap[pure.out.a].m
    /\ heap[pure.out.a].m["r"] = Num(0)
    /\ "r" \notin DOMAIN heap[DataNumbers].m

\* An update's exclusive section is half done: the old key is gone and the new
\* key is not in the table yet.
Torn(u) ==
    /\ req[u].pc = "u_insert"
    /\ req[u].oldKey # DocKey(req[u].updated)
    /\ req[u].oldKey \notin DOMAIN dynamicRoutes
    /\ DocKey(req[u].updated) \notin DOMAIN dynamicRoutes

\* C29: an update that changes a definition's (method, endpoint) deletes the old
\* key and inserts the new key in one exclusive section of the route table: no
\* dispatcher lookup, under any interleaving, reads a table with the old key
\* removed and the new key not yet present; when the section ends the table has
\* the new entry and not the old key, and a lookup reads the table as it then is.
C29_UpdateSectionExclusive ==
    [][\A w \in Workers :
          /\ (req[w].pc = "l_lookup" /\ req'[w].pc = "done") =>
                /\ \A u \in Workers : ~Torn(u)
                /\ LET key == RouteKey(req[w].payload.method, req[w].path) IN
                   /\ req'[w].hit = (key \in DOMAIN dynamicRoutes)
                   /\ req'[w].hit => req'[w].updated = dynamicRoutes[key]
          /\ (req[w].pc = "u_insert" /\ req'[w].pc = "done") =>
                LET newKey == DocKey(req[w].updated) IN
                /\ newKey \in DOMAIN dynamicRoutes'
                /\ dynamicRoutes'[newKey] = req[w].updated
                /\ req[w].oldKey # newKey => req[w].oldKey \notin DOMAIN dynamicRoutes'
      ]_vars

\* An update stands between its two map operations while a lookup of the key it
\* removed waits for the lock.
C29_Witness ==
    \E u, w \in Workers :
        /\ Torn(u)
        /\ req[w].pc = "l_lookup"
        /\ RouteKey(req[w].payload.method, req[w].path) = req[u].oldKey

\* C30: ProcessConditionalFlow never mutates the data map its caller passes in:
\* for every block and every action type (return, continue, conditionalBlock,
\* apiCall), with or without transformations, the caller's map, and every map
\* reachable from it, equals after the call its snapshot from before the call.
C30_CallerDataUntouched ==
    (pure.fn = "ProcessConditionalFlow" /\ pure.done) =>
        Deep(heap, MapRef(pure.d)) = Deep(PureHeap, MapRef(pure.d))

\* C31: ApplyTransformations always returns a freshly allocated map, never the
\* input map object itself, for every transformation list including the empty
\* one: the map returned is none of the maps that existed before the call.
C31_ReturnsFreshMap ==
    (pure.fn = "ApplyTransformations" /\ pure.done) =>
        /\ pure.out.a # pure.d
        /\ pure.out.a \notin DOMAIN PureHeap

\* The call ran a block whose Then action is an apiCall.
ApiCallMade ==
    /\ pure.fn = "ProcessConditionalFlow" /\ pure.done
    /\ pure.x.flow.t = "block" /\ pure.x.flow.then.t = "action"
    /\ pure.x.flow.then.type = "apiCall"

\* A parameter of the apiCall is a reference that resolves to null or to nothing.
UnresolvedParameter ==
    LET ps == pure.x.flow.then.apiCall.parameters IN
    \E k \in DOMAIN ps :
        ps[k].t = "var" /\ Traverse(PureHeap, MapRef(pure.d), ps[k].path).v = Nil

MissingParameterResponse ==
    [status |-> Str("error"), message |-> Str("Missing required parameter")]

\* C32: in an apiCall action, if the value of any parameter is a `$path`
\* reference that resolves to null or to nothing in the current data, the action
\* returns the structured "missing required parameter" response with no error
\* and save = false, and the target's flow is not run.
C32_UnresolvedParameterRejected ==
    (ApiCallMade /\ UnresolvedParameter) =>
        /\ pure.out.resp.t = "map" /\ pure.out.resp.m = MissingParameterResponse
        /\ pure.out.err = ""
        /\ ~pure.out.save
        /\ "r" \notin DOMAIN pure.out.final.m

\* The interpreter returned an error for the request of w: the definition has a
\* flow, step 5 was reached and the flow did not go through.
InterpreterFailed(w) ==
    /\ dyn[w].pc = "done"
    /\ dyn[w].api # NoDoc
    /\ dyn[w].api.body.conditionalFlow.t # "nilBlock"
    /\ dyn[w].response # Nil
    /\ ~dyn[w].flowRan

RECURSIVE SnapshotAt(_, _)
SnapshotAt(v, parts) ==
    IF parts = <<>> THEN v
    ELSE IF v.t = "map" /\ Head(parts) \in DOMAIN v.m
      THEN SnapshotAt(v.m[Head(parts)], Tail(parts))
      ELSE Nil

\* The apiCall of the call went through: the target is registered, no parameter
\* is a literal null, and no error came back.
ApiCallCompleted ==
    /\ ApiCallMade
    /\ pure.x.flow.then.apiCall.apiName = "t"
    /\ \A k \in DOMAIN pure.x.flow.then.apiCall.parameters :
          pure.x.flow.then.apiCall.parameters[k] # Nil
    /\ pure.out.err = ""

\* C34: for an apiCall action that completes, the final data state it returns
\* is the post-action data map: the incoming fields, the call result at
\* resultField, and the fields its transformations write, both when returnData
\* is a map and when it is not.
C34_ApiCallFinalState ==
    ApiCallCompleted =>
        LET before == Deep(PureHeap, MapRef(pure.d))
            act == pure.x.flow.then
        IN /\ \A k \in DOMAIN before.m \ {act.apiCall.resultField[1]} :
                 k \in DOMAIN pure.out.final.m /\ pure.out.final.m[k] = before.m[k]
           /\ SnapshotAt(pure.out.final, act.apiCall.resultField) = Str("ok")
           /\ act.transform # <<>> => SnapshotAt(pure.out.final, <<"branch">>) = Str("then")

\* The flow stored under a name, as the store returns it.
StoredFlow(name) == (CHOOSE d \in store : d.name = name).body.conditionalFlow

SetApplied ==
    /\ pure.fn = "ApplyTransformations" /\ pure.done
    /\ Len(pure.x.ts) = 1 /\ pure.x.ts[1].operation = "set"

\* C36: a set transformation writes substitute(value, data) to its field for
\* every kind of value template: a literal is written as is, a `$path` string is
\* replaced by the referenced value (the field is left as it is when the
\* reference resolves to nothing), and a map or list template containing `$path`
\* strings is written with those references replaced by their values.
C36_SetWritesSubstituted ==
    SetApplied =>
        LET t == pure.x.ts[1]
            s == SubstituteVariables(PureHeap, 1, t.value, pure.d)
            result == Deep(heap, pure.out)
            before == Deep(PureHeap, MapRef(pure.d))
        IN IF t.value.t = "var" /\ s.v = Nil
             THEN SnapshotAt(result, <<t.field>>) = SnapshotAt(before, <<t.field>>)
             ELSE /\ t.field \in DOMAIN result.m
                  /\ result.m[t.field] = Deep(s.h, s.v)

\* The call applied a list with a calculate that cannot be evaluated.
FailingApplied ==
    /\ pure.fn = "ApplyTransformations" /\ pure.done
    /\ pure.x.ts \in FailingLists

LiteralOnly(ts) ==
    \A i \in DOMAIN ts :
        \/ ts[i].operation = "remove"
        \/ ts[i].operation = "set" /\ ~HasVariable(PureHeap, ts[i].value)

AppliedTwice == pure.fn = "ApplyTransformations twice" /\ LiteralOnly(pure.x.ts)

\* C38: for a list made only of remove and set-with-literal operations,
\* ApplyTransformations(ts, ApplyTransformations(ts, d)) equals
\* ApplyTransformations(ts, d): the second application returns a map with the
\* contents of the first result, and every field the list set holds the value the
\* first application gave it (every field it removed is still absent).
C38_LiteralListIdempotent ==
    AppliedTwice =>
        /\ Deep(heap, pure.out) = Deep(heap, pure.x.once)
        /\ \A i \in DOMAIN pure.x.ts :
              LET f == pure.x.ts[i].field
              IN /\ (f \in DOMAIN heap[pure.out.a].m) = (f \in DOMAIN heap[pure.x.once.a].m)
                 /\ f \in DOMAIN heap[pure.out.a].m =>
                      Deep(heap, heap[pure.out.a].m[f]) = Deep(heap, heap[pure.x.once.a].m[f])

C38_Witness ==
    /\ AppliedTwice
    /\ pure.x.ts = <<Set("role", Str("x")), RemoveField("name")>>
    /\ pure.d = DataAdmin
    /\ "name" \in DOMAIN PureHeap[DataAdmin].m
    /\ heap[pure.out.a].m["role"] = Str("x")
    /\ "name" \notin DOMAIN heap[pure.out.a].m
    /\ pure.out.a # pure.x.once.a

\* A return action with an array as returnData was processed.
ReturnedList ==
    /\ pure.fn = "ProcessConditionalFlow"
    /\ pure.done
    /\ pure.x.flow.t = "block"
    /\ pure.x.flow.then.t = "action"
    /\ pure.x.flow.then.type = "return"
    /\ pure.x.flow.then.returnData.t = "list"

\* The field of a pair that holds its key: "Key" or "key".
KeyField(item) == IF Has(PureHeap, item.a, "Key") THEN "Key" ELSE "key"
ValueField(item) == IF Has(PureHeap, item.a, "Value") THEN "Value" ELSE "value"

\* A {Key, Value} pair, the field names in either case.
IsPair(item) ==
    /\ IsPlainMap(item)
    /\ Has(PureHeap, item.a, "Key") \/ Has(PureHeap, item.a, "key")
    /\ Has(PureHeap, item.a, "Value") \/ Has(PureHeap, item.a, "value")
    /\ PureHeap[item.a].m[KeyField(item)].t = "str"

\* The map key -> substituted value of a list of pairs; a later pair wins.
Folded(items) ==
    [t |-> "map", kind |-> "map",
     m |-> [k \in {PureHeap[items[i].a].m[KeyField(items[i])].s : i \in DOMAIN items} |->
              LET last == CHOOSE i \in DOMAIN items :
                              /\ PureHeap[items[i].a].m[KeyField(items[i])].s = k
                              /\ \A j \in DOMAIN items :
                                    PureHeap[items[j].a].m[KeyField(items[j])].s = k => j <= i
              IN Substituted(PureHeap[items[last].a].m[ValueField(items[last])])]]

\* C39: a return action whose returnData is a list of {Key, Value} pairs, the
\* field names spelled Key/Value or key/value, answers the map key -> value
\* substituted against the data after the transformations; a list that is not
\* made of such pairs is answered substituted element by element.
C39_ReturnListFolded ==
    ReturnedList =>
        LET items == pure.x.flow.then.returnData.items
        IN IF items # <<>> /\ \A i \in DOMAIN items : IsPair(items[i])
             THEN pure.out.resp = Folded(items)
             ELSE pure.out.resp = Substituted(pure.x.flow.then.returnData)

\* The flow of the matched definition is a call of another definition.
CallsTarget(w) ==
    /\ dyn[w].api # NoDoc
    /\ dyn[w].api.body.conditionalFlow = FlowThrough(FALSE)
         \/ dyn[w].api.body.conditionalFlow = FlowThrough(TRUE)

\* C40: a dynamic request issues at most one save, with the database, the
\* collection and the unique key of the definition the request matched; a call
\* of another definition causes no save for it: when the calling action does not
\* ask for a save none is issued although the target's flow asks for one, and
\* when it does the one save holds the caller's data (the target's response
\* under the result field), not the target's final data.
C40_OneSaveToMatchedDefinition ==
    \A w \in Workers :
        /\ dyn[w].issued.n <= 1
        /\ dyn[w].issued.called =>
              /\ dyn[w].api # NoDoc
              /\ dyn[w].issued.database = dyn[w].api.database
              /\ dyn[w].issued.collection = dyn[w].api.collection
              /\ dyn[w].issued.uniqueKey = dyn[w].api.body.uniqueKey
        /\ (CallsTarget(w) /\ ~dyn[w].api.body.conditionalFlow.then.saveData) =>
              ~dyn[w].issued.called
        /\ (CallsTarget(w) /\ dyn[w].issued.called) =>
              /\ dyn[w].issued.collection = "users"
              /\ "stage" \notin DOMAIN dyn[w].issued.data
              /\ "r" \in DOMAIN dyn[w].issued.data

\* One request called "vault" and saved, another called it and was answered
\* without a save, and "vault" itself saves to its own collection.
C40_Witness ==
    \E w, v \in Workers :
        /\ dyn[w].pc = "done" /\ dyn[w].api # NoDoc /\ dyn[w].api.name = "keep"
        /\ dyn[w].issued.n = 1
        /\ dyn[w].issued.collection = "users" /\ dyn[w].issued.uniqueKey = "id"
        /\ "r" \in DOMAIN dyn[w].issued.data
        /\ dyn[v].pc = "done" /\ dyn[v].api # NoDoc /\ dyn[v].api.name = "thru"
        /\ dyn[v].flowRan /\ dyn[v].status = 200 /\ ~dyn[v].issued.called


=============================================================================
